---- MODULE Spec2Model ----
(***************************************************************************)
(* A model of jlox (sigmaSd/jlox), a tree-walking interpreter for Lox:     *)
(* the scanner, the recursive-descent parser, the resolver, the            *)
(* interpreter with its environment chain, and the driver Lox::run.        *)
(*                                                                         *)
(* Source text is the sequence of the bytes of a UTF-8 string, each an     *)
(* ASCII character or "xHH"; lexemes are sub-sequences of it.  Rust        *)
(* indices are 0-based and kept so: the byte at Rust index i is            *)
(* source[i + 1].                                                          *)
(***************************************************************************)
EXTENDS Integers, Sequences, FiniteSets, TLC

(***************************************************************************)
(* Scanner  (src/src/scanner.rs)                                           *)
(***************************************************************************)

\* Option<char>::None
NoChar == ""

Digits == {"0", "1", "2", "3", "4", "5", "6", "7", "8", "9"}

Letters ==
    {"a", "b", "c", "d", "e", "f", "g", "h", "i", "j", "k", "l", "m",
     "n", "o", "p", "q", "r", "s", "t", "u", "v", "w", "x", "y", "z",
     "A", "B", "C", "D", "E", "F", "G", "H", "I", "J", "K", "L", "M",
     "N", "O", "P", "Q", "R", "S", "T", "U", "V", "W", "X", "Y", "Z"}

\* The source is a UTF-8 string that the scanner reads byte by byte
\* (`self.source.as_bytes()[self.current] as char`).  An ASCII byte is the
\* character itself; a byte of a longer sequence is written "xHH" and is, as
\* a char, the character U+00HH.

\* the bytes 10xxxxxx: an index of the string where one stands is not a
\* char boundary
Continuations ==
    {"x80", "x81", "x82", "x83", "x84", "x85", "x86", "x87", "x88", "x89",
     "x8A", "x8B", "x8C", "x8D", "x8E", "x8F", "x90", "x91", "x92", "x93",
     "x94", "x95", "x96", "x97", "x98", "x99", "x9A", "x9B", "x9C", "x9D",
     "x9E", "x9F", "xA0", "xA1", "xA2", "xA3", "xA4", "xA5", "xA6", "xA7",
     "xA8", "xA9", "xAA", "xAB", "xAC", "xAD", "xAE", "xAF", "xB0", "xB1",
     "xB2", "xB3", "xB4", "xB5", "xB6", "xB7", "xB8", "xB9", "xBA", "xBB",
     "xBC", "xBD", "xBE", "xBF"}

\* the bytes that are alphabetic characters of U+0080..U+00FF:
\* char::is_alphabetic
LatinLetters ==
    {"xAA", "xB5", "xBA", "xC0", "xC1", "xC2", "xC3", "xC4", "xC5", "xC6",
     "xC7", "xC8", "xC9", "xCA", "xCB", "xCC", "xCD", "xCE", "xCF", "xD0",
     "xD1", "xD2", "xD3", "xD4", "xD5", "xD6", "xD8", "xD9", "xDA", "xDB",
     "xDC", "xDD", "xDE", "xDF", "xE0", "xE1", "xE2", "xE3", "xE4", "xE5",
     "xE6", "xE7", "xE8", "xE9", "xEA", "xEB", "xEC", "xED", "xEE", "xEF",
     "xF0", "xF1", "xF2", "xF3", "xF4", "xF5", "xF6", "xF8", "xF9", "xFA",
     "xFB", "xFC", "xFD", "xFE", "xFF"}

\* Helper for char / Option<char>: char::is_alphabetic, char::is_digit(10)
is_lalpha(c) == c \in Letters \/ c \in LatinLetters \/ c = "_"

is_ldigit(c) == c \in Digits

is_lalpha_numeric(c) == is_ldigit(c) \/ is_lalpha(c)

\* Scanner::keywords
keywords ==
    << [text |-> <<"a", "n", "d">>, ttype |-> "AND"],
       [text |-> <<"c", "l", "a", "s", "s">>, ttype |-> "CLASS"],
       [text |-> <<"e", "l", "s", "e">>, ttype |-> "ELSE"],
       [text |-> <<"f", "a", "l", "s", "e">>, ttype |-> "FALSE"],
       [text |-> <<"f", "o", "r">>, ttype |-> "FOR"],
       [text |-> <<"f", "u", "n">>, ttype |-> "FUN"],
       [text |-> <<"i", "f">>, ttype |-> "IF"],
       [text |-> <<"n", "i", "l">>, ttype |-> "NIL"],
       [text |-> <<"o", "r">>, ttype |-> "OR"],
       [text |-> <<"p", "r", "i", "n", "t">>, ttype |-> "PRINT"],
       [text |-> <<"r", "e", "t", "u", "r", "n">>, ttype |-> "RETURN"],
       [text |-> <<"s", "u", "p", "e", "r">>, ttype |-> "SUPER"],
       [text |-> <<"t", "h", "i", "s">>, ttype |-> "THIS"],
       [text |-> <<"t", "r", "u", "e">>, ttype |-> "TRUE"],
       [text |-> <<"v", "a", "r">>, ttype |-> "VAR"],
       [text |-> <<"w", "h", "i", "l", "e">>, ttype |-> "WHILE"] >>

\* null_obj!()
NullObj == [kind |-> "Nil"]

NumberObj(n) == [kind |-> "Number", num |-> n]

StringObj(s) == [kind |-> "String", str |-> s]

BoolObj(b) == [kind |-> "Bool", bool |-> b]

\* Token::new_with_literal.  pos and run are not fields of the Rust struct:
\* pos is the index of the token in the scanner's list and run tells the
\* scanner (the input) that made it, kept to tell two occurrences of an
\* equal token apart in the properties.  Every place where the code compares
\* or hashes tokens goes through TokenKey, which drops them.
TokenNewWithLiteral(ttype, lexeme, line, literal, pos, run) ==
    [ttype |-> ttype, lexeme |-> lexeme, literal |-> literal,
     line |-> line, pos |-> pos, run |-> run]

\* Token::new
TokenNew(ttype, lexeme, line, pos, run) ==
    TokenNewWithLiteral(ttype, lexeme, line, NullObj, pos, run)

\* #[derive(PartialEq, Eq, Hash)] on Token: the four fields of the struct
TokenKey(t) ==
    [ttype |-> t.ttype, lexeme |-> t.lexeme, literal |-> t.literal,
     line |-> t.line]

\* Scanner::new.  run and panicked are not fields of the Rust struct:
\* Lox::run makes one scanner for every input and run tells them apart;
\* panicked tells that scan_tokens is being unwound by a panic.
ScannerNew(code) ==
    [source |-> code, tokens |-> <<>>, start |-> 0, current |-> 0,
     line |-> 1, had_error |-> FALSE, errs |-> <<>>, run |-> 0,
     panicked |-> FALSE]

\* Scanner::is_at_end
ScanIsAtEnd(s) == s.current >= Len(s.source)

\* Scanner::peek
ScanPeek(s) == IF ScanIsAtEnd(s) THEN NoChar ELSE s.source[s.current + 1]

\* Scanner::peek_next
ScanPeekNext(s) ==
    IF s.current + 1 >= Len(s.source) THEN NoChar ELSE s.source[s.current + 2]

\* Scanner::advance: the state after; the character returned is CharAt
ScanAdvance(s) == [s EXCEPT !.current = @ + 1]

CharAt(s) == s.source[s.current + 1]

\* str::is_char_boundary
IsCharBoundary(source, i) ==
    i = 0 \/ i = Len(source)
        \/ (i < Len(source) /\ source[i + 1] \notin Continuations)

\* &self.source[self.start..self.current]
ScanText(s) == SubSeq(s.source, s.start + 1, s.current)

\* whether the slice &self.source[self.start..self.current] panics ("byte
\* index is not a char boundary")
ScanTextPanics(s) ==
    ~IsCharBoundary(s.source, s.start) \/ ~IsCharBoundary(s.source, s.current)

\* Scanner::add_token_with_literal
AddTokenWithLiteral(s, ttype, literal) ==
    IF ScanTextPanics(s) THEN [s EXCEPT !.panicked = TRUE]
    ELSE [s EXCEPT !.tokens =
            Append(@, TokenNewWithLiteral(ttype, ScanText(s), s.line, literal,
                                          Len(s.tokens) + 1, s.run))]

\* Scanner::add_token
AddToken(s, ttype) == AddTokenWithLiteral(s, ttype, NullObj)

\* Scanner::next_char_is: consumes the character when it is the expected one
NextCharIs(s, expected) ==
    IF ScanIsAtEnd(s) THEN FALSE ELSE s.source[s.current + 1] = expected

\* the state after a two-character punctuator, or after a one-character one
AddOneOrTwo(s, second, two, one) ==
    IF NextCharIs(s, second)
    THEN AddToken(ScanAdvance(s), two)
    ELSE AddToken(s, one)

RECURSIVE SkipComment(_)
\* while self.peek() != Some('\n') && !self.is_at_end() { self.advance(); }
SkipComment(s) ==
    IF ScanPeek(s) # "\n" /\ ~ScanIsAtEnd(s)
    THEN SkipComment(ScanAdvance(s))
    ELSE s

RECURSIVE AdvanceWhileAlnum(_)
AdvanceWhileAlnum(s) ==
    IF is_lalpha_numeric(ScanPeek(s)) THEN AdvanceWhileAlnum(ScanAdvance(s)) ELSE s

RECURSIVE AdvanceWhileDigit(_)
AdvanceWhileDigit(s) ==
    IF is_ldigit(ScanPeek(s)) THEN AdvanceWhileDigit(ScanAdvance(s)) ELSE s

RECURSIVE KeywordType(_, _)
\* self.keywords.get(text)
KeywordType(text, i) ==
    IF i > Len(keywords) THEN "IDENTIFIER"
    ELSE IF keywords[i].text = text THEN keywords[i].ttype
    ELSE KeywordType(text, i + 1)

\* Scanner::identifier
ScanIdentifier(s) ==
    LET s1 == AdvanceWhileAlnum(s)
    IN  AddToken(s1, KeywordType(ScanText(s1), 1))

DigitValue(c) ==
    CASE c = "0" -> 0 [] c = "1" -> 1 [] c = "2" -> 2 [] c = "3" -> 3
      [] c = "4" -> 4 [] c = "5" -> 5 [] c = "6" -> 6 [] c = "7" -> 7
      [] c = "8" -> 8 [] c = "9" -> 9

RECURSIVE ParseDigits(_, _)
\* the value of a digit string, most significant digit first
ParseDigits(text, acc) ==
    IF text = <<>> THEN acc
    ELSE ParseDigits(Tail(text), acc * 10 + DigitValue(Head(text)))

RECURSIVE DotIndex(_, _)
DotIndex(text, i) ==
    IF i > Len(text) THEN 0
    ELSE IF text[i] = "." THEN i
    ELSE DotIndex(text, i + 1)

\* str::parse::<f64>() of [0-9]+ ( '.' [0-9]+ )?  The doubles of the model
\* are the integers; a literal with a fraction keeps its fraction digits
\* beside the integer part.
ParseNumber(text) ==
    LET d == DotIndex(text, 1)
    IN  IF d = 0
        THEN NumberObj(ParseDigits(text, 0))
        ELSE [kind |-> "Number", num |-> ParseDigits(SubSeq(text, 1, d - 1), 0),
              frac |-> SubSeq(text, d + 1, Len(text))]

\* Scanner::number
ScanNumber(s) ==
    LET s1 == AdvanceWhileDigit(s)
        s2 == IF ScanPeek(s1) = "." /\ is_ldigit(ScanPeekNext(s1))
              THEN ScanAdvance(s1)
              ELSE s1
        s3 == AdvanceWhileDigit(s2)
    IN  AddTokenWithLiteral(s3, "NUMBER", ParseNumber(ScanText(s3)))

RECURSIVE StringBody(_)
\* while self.peek() != Some('"') && !self.is_at_end() { ... }
StringBody(s) ==
    IF ScanPeek(s) # "\"" /\ ~ScanIsAtEnd(s)
    THEN StringBody(ScanAdvance(
            IF ScanPeek(s) = "\n" THEN [s EXCEPT !.line = @ + 1] ELSE s))
    ELSE s

\* Scanner::string
ScanString(s) ==
    LET s1 == StringBody(s)
    IN  IF ScanIsAtEnd(s1)
        THEN [s1 EXCEPT
                !.errs = Append(@, [msg |-> "Unterminated string.",
                                    line |-> s1.line]),
                !.had_error = TRUE]
        ELSE LET s2 == ScanAdvance(s1)
             IN  AddTokenWithLiteral(s2, "STRING",
                    StringObj(SubSeq(s2.source, s2.start + 2, s2.current - 1)))

\* Scanner::scan_token
ScanToken(s0) ==
    LET c == CharAt(s0)
        s == ScanAdvance(s0)
    IN  CASE c = "(" -> AddToken(s, "LEFT_PAREN")
          [] c = ")" -> AddToken(s, "RIGHT_PAREN")
          [] c = "{" -> AddToken(s, "LEFT_BRACE")
          [] c = "}" -> AddToken(s, "RIGHT_BRACE")
          [] c = "," -> AddToken(s, "COMMA")
          [] c = "." -> AddToken(s, "DOT")
          [] c = "-" -> AddToken(s, "MINUS")
          [] c = "+" -> AddToken(s, "PLUS")
          [] c = ";" -> AddToken(s, "SEMICOLON")
          [] c = "*" -> AddToken(s, "STAR")
          [] c = "!" -> AddOneOrTwo(s, "=", "BANG_EQUAL", "BANG")
          [] c = "=" -> AddOneOrTwo(s, "=", "EQUAL_EQUAL", "EQUAL")
          [] c = "<" -> AddOneOrTwo(s, "=", "LESS_EQUAL", "LESS")
          [] c = ">" -> AddOneOrTwo(s, "=", "GREATER_EQUAL", "GREATER")
          [] c = "/" -> IF NextCharIs(s, "/")
                        THEN SkipComment(ScanAdvance(s))
                        ELSE AddToken(s, "SLASH")
          [] c \in {" ", "\r", "\t"} -> s
          [] c = "\n" -> [s EXCEPT !.line = @ + 1]
          [] c = "\"" -> ScanString(s)
          [] OTHER ->
                IF is_ldigit(c) THEN ScanNumber(s)
                ELSE IF is_lalpha(c) THEN ScanIdentifier(s)
                ELSE [s EXCEPT
                        !.errs = Append(@, [msg |-> "Unexpected character.",
                                            line |-> s.line])]

\* one turn of `while !self.is_at_end() { self.start = self.current;
\* self.scan_token(); }` in Scanner::scan_tokens
ScanStep(s) == ScanToken([s EXCEPT !.start = s.current])

\* the end of Scanner::scan_tokens: the EOF token is pushed
ScanEof(s) ==
    [s EXCEPT !.tokens =
        Append(@, TokenNew("EOF", <<>>, s.line, Len(s.tokens) + 1, s.run))]

(***************************************************************************)
(* AST  (src/src/ast.rs, and the node constructors used by the parser)     *)
(***************************************************************************)

\* Option::None for an optional node
NoneNode == [type |-> "None"]

IsSome(n) == n.type # "None"

BinaryExpr(left, operator, right) ==
    [type |-> "Binary", left |-> left, operator |-> operator, right |-> right]

LogicalExpr(left, operator, right) ==
    [type |-> "Logical", left |-> left, operator |-> operator, right |-> right]

UnaryExpr(operator, right) ==
    [type |-> "Unary", operator |-> operator, right |-> right]

LiteralExpr(value) == [type |-> "Literal", value |-> value]

GroupingExpr(expression) == [type |-> "Grouping", expression |-> expression]

VariableExpr(name) == [type |-> "Variable", name |-> name]

AssignExpr(name, value) == [type |-> "Assign", name |-> name, value |-> value]

CallExpr(callee, paren, arguemnts) ==
    [type |-> "Call", callee |-> callee, paren |-> paren,
     arguemnts |-> arguemnts]

GetExpr(object, name) == [type |-> "Get", object |-> object, name |-> name]

SetExpr(object, name, value) ==
    [type |-> "Set", object |-> object, name |-> name, value |-> value]

ThisExpr(keyword) == [type |-> "This", keyword |-> keyword]

SuperExpr(keyword, method) ==
    [type |-> "Super", keyword |-> keyword, method |-> method]

BlockStmt(statements) == [type |-> "Block", statements |-> statements]

ExpressionStmt(expression) == [type |-> "Expression", expression |-> expression]

PrintStmt(expression) == [type |-> "Print", expression |-> expression]

VarStmt(name, initializer) ==
    [type |-> "Var", name |-> name, initializer |-> initializer]

IfStmt(condition, then_branch, else_branch) ==
    [type |-> "If", condition |-> condition, then_branch |-> then_branch,
     else_branch |-> else_branch]

WhileStmt(condition, body) ==
    [type |-> "While", condition |-> condition, body |-> body]

FunctionStmt(name, params, body) ==
    [type |-> "Function", name |-> name, params |-> params, body |-> body]

ReturnStmt(keyword, value) ==
    [type |-> "Return", keyword |-> keyword, value |-> value]

ClassStmt(name, superclass, methods) ==
    [type |-> "Class", name |-> name, superclass |-> superclass,
     methods |-> methods]

(***************************************************************************)
(* Parser  (src/src/parser.rs)                                             *)
(*                                                                         *)
(* A parsing method is an operator from the parser to a result             *)
(* [p, node, ok, err]: the parser after, the node built, and ok = FALSE    *)
(* with the thrown message when the method unwinds by throw_error.         *)
(***************************************************************************)

MaxArguments == 255

MaxParameters == 255

\* the turns of a loop that are taken one after the other before the others
\* are taken half by half
LoopChunk == 4

\* Parser::new.  errs is stderr: what report_error and the catch in
\* declaration print.  underflow and stalls are not fields of the Rust
\* struct: underflow tells that previous() was called while current was 0
\* (`current - 1` on a usize, then tokens.get(..).unwrap()), stalls lists
\* the turns of the loops of parse and block that left current where it was.
ParserNew(tokens) ==
    [tokens |-> tokens, current |-> 0, had_error |-> FALSE, errs |-> <<>>,
     underflow |-> FALSE, stalls |-> <<>>]

POk(p, node) == [p |-> p, node |-> node, ok |-> TRUE, err |-> NoneNode]

\* "[line {}] Error at '{}': {}" / "[line {}] Error at end: {}".  pos is
\* the place of the token in the token list, read only by the properties.
Diagnostic(token, msg) ==
    [line |-> token.line, msg |-> msg,
     at |-> IF token.ttype = "EOF" THEN <<"e", "n", "d">> ELSE token.lexeme,
     pos |-> token.pos]

\* Parser::throw_error
ThrowError(p, token, msg) ==
    [p |-> p, node |-> NoneNode, ok |-> FALSE, err |-> Diagnostic(token, msg)]

\* Parser::report_error
ParserReportError(p, token, msg) ==
    [p EXCEPT !.had_error = TRUE, !.errs = Append(@, Diagnostic(token, msg))]

\* Parser::peek: self.tokens.get(current); the token list ends with EOF and
\* advance never steps past it
Peek(p) == p.tokens[p.current + 1]

\* Parser::is_at_end
IsAtEnd(p) == p.current < Len(p.tokens) /\ Peek(p).ttype = "EOF"

\* Parser::previous
Previous(p) == p.tokens[p.current]

\* Parser::advance: `if !self.is_at_end() { current += 1 } self.previous()`
Advance(p) ==
    IF ~IsAtEnd(p) THEN [p EXCEPT !.current = @ + 1]
    ELSE [p EXCEPT !.underflow = @ \/ p.current = 0]

\* Parser::check
Check(p, ttype) == IF IsAtEnd(p) THEN FALSE ELSE Peek(p).ttype = ttype

\* Parser::tmatch, the test: the caller advances when it holds
Tmatch(p, types) == \E ttype \in types : Check(p, ttype)

\* Parser::consume: node is the token consumed
Consume(p, ttype, msg) ==
    IF Check(p, ttype)
    THEN POk(Advance(p), Previous(Advance(p)))
    ELSE ThrowError(p, Peek(p), msg)

RECURSIVE SynchronizeLoop(_)
SynchronizeLoop(p) ==
    IF IsAtEnd(p) THEN p
    ELSE IF p.current = 0 THEN [p EXCEPT !.underflow = TRUE]
    ELSE IF Previous(p).ttype = "SEMICOLON" THEN p
    ELSE IF Peek(p).ttype \in {"CLASS", "FUN", "VAR", "FOR", "IF", "WHILE",
                               "PRINT", "RETURN"} THEN p
    ELSE SynchronizeLoop(Advance(p))

\* synchronize without its first `self.advance()`
SynchronizeStays(p) == SynchronizeLoop(p)

\* Parser::synchronize
Synchronize(p) == SynchronizeLoop(Advance(p))

\* the parser after a turn of a loop that began with the parser `before`
Turn(before, after) ==
    IF after.current > before.current THEN after
    ELSE [after EXCEPT !.stalls = Append(@, before.current)]

RECURSIVE ParserMethod(_, _)

RECURSIVE Assignment(_)
\* Parser::expression
Expression(p) == Assignment(p)

\* the operator tokens of each left-associative level
LevelOperators(level) ==
    CASE level = "or" -> {"OR"}
      [] level = "and" -> {"AND"}
      [] level = "equality" -> {"BANG_EQUAL", "EQUAL_EQUAL"}
      [] level = "comparison" -> {"GREATER", "GREATER_EQUAL", "LESS", "LESS_EQUAL"}
      [] level = "term" -> {"MINUS", "PLUS"}
      [] level = "factor" -> {"SLASH", "STAR"}

RECURSIVE BinaryOperand(_, _)
RECURSIVE And(_), Equality(_), Comparison(_), Term(_), Factor(_)
\* the method each level calls for its operands
BinaryOperand(p, level) ==
    CASE level = "or" -> And(p)
      [] level = "and" -> Equality(p)
      [] level = "equality" -> Comparison(p)
      [] level = "comparison" -> Term(p)
      [] level = "term" -> Factor(p)
      [] level = "factor" -> ParserMethod("Unary", <<p>>)

\* while self.tmatch([...]) { operator = previous; right = operand; expr = .. }
BinaryRest(p, expr, level) ==
    IF Tmatch(p, LevelOperators(level))
    THEN LET p1 == Advance(p)
             operator == Previous(p1)
             r == BinaryOperand(p1, level)
         IN  IF ~r.ok THEN r
             ELSE ParserMethod("BinaryRest", <<r.p,
                     IF level \in {"or", "and"}
                     THEN LogicalExpr(expr, operator, r.node)
                     ELSE BinaryExpr(expr, operator, r.node),
                     level>>)
    ELSE POk(p, expr)

BinaryLevel(p, level) ==
    LET r == BinaryOperand(p, level)
    IN  IF ~r.ok THEN r ELSE ParserMethod("BinaryRest", <<r.p, r.node, level>>)

\* Parser::or
Or(p) == BinaryLevel(p, "or")

\* Parser::and
And(p) == BinaryLevel(p, "and")

\* Parser::equality
Equality(p) == BinaryLevel(p, "equality")

\* Parser::comparison
Comparison(p) == BinaryLevel(p, "comparison")

\* Parser::term
Term(p) == BinaryLevel(p, "term")

\* Parser::factor
Factor(p) == BinaryLevel(p, "factor")

\* an assignment that throws at an invalid target, as consume does at a
\* token it does not expect
AssignmentThrows(p) ==
    LET l == ParserMethod("Or", <<p>>)
    IN  IF ~l.ok THEN l
        ELSE IF Tmatch(l.p, {"EQUAL"})
        THEN LET p1 == Advance(l.p)
                 equals == Previous(p1)
                 v == ParserMethod("Assignment", <<p1>>)
             IN  IF ~v.ok THEN v
                 ELSE IF l.node.type = "Variable"
                 THEN POk(v.p, AssignExpr(l.node.name, v.node))
                 ELSE IF l.node.type = "Get"
                 THEN POk(v.p, SetExpr(l.node.object, l.node.name, v.node))
                 ELSE ThrowError(v.p, equals, "Invalid assignment target.")
        ELSE l

\* Parser::assignment
Assignment(p) ==
    LET l == ParserMethod("Or", <<p>>)
    IN  IF ~l.ok THEN l
        ELSE IF Tmatch(l.p, {"EQUAL"})
        THEN LET p1 == Advance(l.p)
                 equals == Previous(p1)
                 v == ParserMethod("Assignment", <<p1>>)
             IN  IF ~v.ok THEN v
                 ELSE IF l.node.type = "Variable"
                 THEN POk(v.p, AssignExpr(l.node.name, v.node))
                 ELSE IF l.node.type = "Get"
                 THEN POk(v.p, SetExpr(l.node.object, l.node.name, v.node))
                 ELSE POk(ParserReportError(v.p, equals,
                                            "Invalid assignment target."),
                          l.node)
        ELSE l

RECURSIVE Call(_)
\* Parser::unary
Unary(p) ==
    IF Tmatch(p, {"BANG", "MINUS"})
    THEN LET p1 == Advance(p)
             r == ParserMethod("Unary", <<p1>>)
         IN  IF ~r.ok THEN r ELSE POk(r.p, UnaryExpr(Previous(p1), r.node))
    ELSE Call(p)

\* Parser::primary
Primary(p) ==
    LET p1 == Advance(p)
    IN  CASE Tmatch(p, {"FALSE"}) -> POk(p1, LiteralExpr(BoolObj(FALSE)))
          [] Tmatch(p, {"TRUE"}) -> POk(p1, LiteralExpr(BoolObj(TRUE)))
          [] Tmatch(p, {"NIL"}) -> POk(p1, LiteralExpr(NullObj))
          [] Tmatch(p, {"NUMBER", "STRING"}) ->
                POk(p1, LiteralExpr(Previous(p1).literal))
          [] Tmatch(p, {"SUPER"}) ->
                LET d == Consume(p1, "DOT", "Expect '.' after 'super'.")
                    m == Consume(d.p, "IDENTIFIER", "Expect superclass method name.")
                IN  IF ~d.ok THEN d
                    ELSE IF ~m.ok THEN m
                    ELSE POk(m.p, SuperExpr(Previous(p1), m.node))
          [] Tmatch(p, {"THIS"}) -> POk(p1, ThisExpr(Previous(p1)))
          [] Tmatch(p, {"IDENTIFIER"}) -> POk(p1, VariableExpr(Previous(p1)))
          [] Tmatch(p, {"LEFT_PAREN"}) ->
                LET e == ParserMethod("Expression", <<p1>>)
                    c == Consume(e.p, "RIGHT_PAREN", "Expect ')' after expression.")
                IN  IF ~e.ok THEN e
                    ELSE IF ~c.ok THEN c
                    ELSE POk(c.p, GroupingExpr(e.node))
          [] OTHER -> ThrowError(p, Peek(p), "Expect expression.")

\* the body of `while self.tmatch(COMMA) { if len >= 255 { throw_error }
\* push(expression) }` after the comma, on the result x of the turns before
ArgumentsTurn(x) ==
    LET p1 == Advance(x.p)
    IN  IF Len(x.node) >= MaxArguments
        THEN ThrowError(p1, Peek(p1), "Can't have more than 255 arguments.")
        ELSE LET e == ParserMethod("Expression", <<p1>>)
             IN  IF ~e.ok THEN e ELSE POk(e.p, Append(x.node, e.node))

RECURSIVE ArgumentsRest(_, _, _)
\* the loop, on the result x of the turns before: up to n turns (a turn that
\* finds 255 arguments throws, so it has at most that many), the first k of
\* them one after the other and the others in two halves
ArgumentsRest(x, k, n) ==
    CASE ~x.ok -> x
      [] x.ok /\ (~Tmatch(x.p, {"COMMA"}) \/ n <= 0) -> x
      [] x.ok /\ Tmatch(x.p, {"COMMA"}) /\ n > 0 /\ (k > 0 \/ n = 1) ->
            ArgumentsRest(ArgumentsTurn(x), k - 1, n - 1)
      [] OTHER -> ArgumentsRest(ArgumentsRest(x, 0, n \div 2), 0, n - n \div 2)

\* Parser::finish_call
FinishCall(p, callee) ==
    LET first == ParserMethod("Expression", <<p>>)
        args == IF Check(p, "RIGHT_PAREN") THEN POk(p, <<>>)
                ELSE IF ~first.ok THEN first
                ELSE ArgumentsRest(POk(first.p, <<first.node>>), LoopChunk,
                                   MaxArguments + 1)
        paren == Consume(args.p, "RIGHT_PAREN", "Expect ')' after arguments.")
    IN  IF ~args.ok THEN args
        ELSE IF ~paren.ok THEN paren
        ELSE POk(paren.p, CallExpr(callee, paren.node, args.node))

\* the loop of Parser::call
CallRest(p, expr) ==
    IF Tmatch(p, {"LEFT_PAREN"})
    THEN LET r == FinishCall(Advance(p), expr)
         IN  IF ~r.ok THEN r ELSE ParserMethod("CallRest", <<r.p, r.node>>)
    ELSE IF Tmatch(p, {"DOT"})
    THEN LET n == Consume(Advance(p), "IDENTIFIER",
                          "Expect property name after '.'.")
         IN  IF ~n.ok THEN n ELSE ParserMethod("CallRest", <<n.p, GetExpr(expr, n.node)>>)
    ELSE POk(p, expr)

\* Parser::call
Call(p) ==
    LET r == ParserMethod("Primary", <<p>>)
    IN  IF ~r.ok THEN r ELSE ParserMethod("CallRest", <<r.p, r.node>>)

\* Parser::print_statement
PrintStatement(p) ==
    LET e == ParserMethod("Expression", <<p>>)
        c == Consume(e.p, "SEMICOLON", "Expect ';' after value.")
    IN  IF ~e.ok THEN e
        ELSE IF ~c.ok THEN c
        ELSE POk(c.p, PrintStmt(e.node))

\* Parser::expression_statement
ExpressionStatement(p) ==
    LET e == ParserMethod("Expression", <<p>>)
        c == Consume(e.p, "SEMICOLON", "Expect ';' after expression.")
    IN  IF ~e.ok THEN e
        ELSE IF ~c.ok THEN c
        ELSE POk(c.p, ExpressionStmt(e.node))

\* Parser::var_declaration
VarDeclaration(p) ==
    LET name == Consume(p, "IDENTIFIER", "Expect variable name.")
        init == IF Tmatch(name.p, {"EQUAL"})
                THEN ParserMethod("Expression", <<Advance(name.p)>>)
                ELSE POk(name.p, NoneNode)
        c == Consume(init.p, "SEMICOLON", "Expect ; after variable declaration.")
    IN  IF ~name.ok THEN name
        ELSE IF ~init.ok THEN init
        ELSE IF ~c.ok THEN c
        ELSE POk(c.p, VarStmt(name.node, init.node))

\* Parser::return_statement
ReturnStatement(p) ==
    LET keyword == Previous(p)
        v == IF ~Check(p, "SEMICOLON") THEN ParserMethod("Expression", <<p>>) ELSE POk(p, NoneNode)
        c == Consume(v.p, "SEMICOLON", "Expect ';' after return value.")
    IN  IF ~v.ok THEN v
        ELSE IF ~c.ok THEN c
        ELSE POk(c.p, ReturnStmt(keyword, v.node))

\* Parser::if_statement
IfStatement(p) ==
    LET l == Consume(p, "LEFT_PAREN", "Expect '(' after 'if'.")
        cond == ParserMethod("Expression", <<l.p>>)
        r == Consume(cond.p, "RIGHT_PAREN", "Expect ')' after if condition.")
        then_branch == ParserMethod("Statement", <<r.p>>)
        else_branch == IF Tmatch(then_branch.p, {"ELSE"})
                       THEN ParserMethod("Statement", <<Advance(then_branch.p)>>)
                       ELSE POk(then_branch.p, NoneNode)
    IN  IF ~l.ok THEN l
        ELSE IF ~cond.ok THEN cond
        ELSE IF ~r.ok THEN r
        ELSE IF ~then_branch.ok THEN then_branch
        ELSE IF ~else_branch.ok THEN else_branch
        ELSE POk(else_branch.p,
                 IfStmt(cond.node, then_branch.node, else_branch.node))

\* Parser::while_statement
WhileStatement(p) ==
    LET l == Consume(p, "LEFT_PAREN", "Expect '(' after 'while'")
        cond == ParserMethod("Expression", <<l.p>>)
        r == Consume(cond.p, "RIGHT_PAREN", "Expect ')' after condition")
        body == ParserMethod("Statement", <<r.p>>)
    IN  IF ~l.ok THEN l
        ELSE IF ~cond.ok THEN cond
        ELSE IF ~r.ok THEN r
        ELSE IF ~body.ok THEN body
        ELSE POk(body.p, WhileStmt(cond.node, body.node))

\* the initializer clause of Parser::for_statement
ForInitializer(p) ==
    IF Tmatch(p, {"SEMICOLON"}) THEN POk(Advance(p), NoneNode)
    ELSE IF Tmatch(p, {"VAR"}) THEN VarDeclaration(Advance(p))
    ELSE ExpressionStatement(p)

\* `if !self.check(closing) { Some(self.expression()) } else { None }`
ForClause(p, closing) ==
    IF ~Check(p, closing) THEN ParserMethod("Expression", <<p>>)
    ELSE POk(p, NoneNode)

\* the desugaring of Parser::for_statement: the while loop, in a block after
\* the initializer
ForDesugar(initializer, condition, increment, body) ==
    LET body1 == IF IsSome(increment)
                 THEN BlockStmt(<<body, ExpressionStmt(increment)>>)
                 ELSE body
        cond1 == IF IsSome(condition) THEN condition
                 ELSE LiteralExpr(BoolObj(TRUE))
    IN  IF IsSome(initializer)
        THEN BlockStmt(<<initializer, WhileStmt(cond1, body1)>>)
        ELSE WhileStmt(cond1, body1)

\* Parser::for_statement
ForStatement(p) ==
    LET l == Consume(p, "LEFT_PAREN", "Expect '(' after 'for'")
        initializer == ForInitializer(l.p)
        condition == ForClause(initializer.p, "SEMICOLON")
        semi == Consume(condition.p, "SEMICOLON",
                        "Expect ';' after loop condition.")
        increment == ForClause(semi.p, "RIGHT_PAREN")
        r == Consume(increment.p, "RIGHT_PAREN", "Expect ')' after clauses.")
        body == ParserMethod("Statement", <<r.p>>)
    IN  IF ~l.ok THEN l
        ELSE IF ~initializer.ok THEN initializer
        ELSE IF ~condition.ok THEN condition
        ELSE IF ~semi.ok THEN semi
        ELSE IF ~increment.ok THEN increment
        ELSE IF ~r.ok THEN r
        ELSE IF ~body.ok THEN body
        ELSE POk(body.p, ForDesugar(initializer.node, condition.node,
                                    increment.node, body.node))

\* Parser::statement
Statement(p) ==
    LET p1 == Advance(p)
    IN  CASE Tmatch(p, {"FOR"}) -> ParserMethod("ForStatement", <<p1>>)
          [] Tmatch(p, {"IF"}) -> ParserMethod("IfStatement", <<p1>>)
          [] Tmatch(p, {"PRINT"}) -> PrintStatement(p1)
          [] Tmatch(p, {"RETURN"}) -> ReturnStatement(p1)
          [] Tmatch(p, {"WHILE"}) -> ParserMethod("WhileStatement", <<p1>>)
          [] Tmatch(p, {"LEFT_BRACE"}) ->
                LET b == ParserMethod("Block", <<p1>>)
                IN  IF ~b.ok THEN b ELSE POk(b.p, BlockStmt(b.node))
          [] OTHER -> ExpressionStatement(p)

RECURSIVE BlockRest(_, _)
\* the loop of Parser::block
BlockRest(p, statements) ==
    IF ~Check(p, "RIGHT_BRACE") /\ ~IsAtEnd(p)
    THEN LET d == ParserMethod("Declaration", <<p>>)
         IN  IF d.ok
             THEN BlockRest(Turn(p, d.p), Append(statements, d.node))
             ELSE BlockRest([Turn(p, d.p) EXCEPT !.had_error = TRUE],
                            statements)
    ELSE POk(p, statements)

\* Parser::block: node is the list of statements
Block(p) ==
    LET b == BlockRest(p, <<>>)
        c == Consume(b.p, "RIGHT_BRACE", "Expect '}' after block.")
    IN  IF ~c.ok THEN c ELSE POk(c.p, b.node)

\* the body of `while self.tmatch(COMMA) { if len >= 255 { throw_error }
\* push(consume) }` after the comma, on the result x of the turns before
ParamsTurn(x) ==
    LET p1 == Advance(x.p)
    IN  IF Len(x.node) >= MaxParameters
        THEN ThrowError(p1, Peek(p1), "Can't have more than 255 parameters.")
        ELSE LET n == Consume(p1, "IDENTIFIER", "Expect parameter name.")
             IN  IF ~n.ok THEN n ELSE POk(n.p, Append(x.node, n.node))

RECURSIVE ParamsRest(_, _, _)
\* the loop, on the result x of the turns before: up to n turns (a turn that
\* finds 255 parameters throws, so it has at most that many), the first k of
\* them one after the other and the others in two halves
ParamsRest(x, k, n) ==
    CASE ~x.ok -> x
      [] x.ok /\ (~Tmatch(x.p, {"COMMA"}) \/ n <= 0) -> x
      [] x.ok /\ Tmatch(x.p, {"COMMA"}) /\ n > 0 /\ (k > 0 \/ n = 1) ->
            ParamsRest(ParamsTurn(x), k - 1, n - 1)
      [] OTHER -> ParamsRest(ParamsRest(x, 0, n \div 2), 0, n - n \div 2)

\* Parser::function: node is the stmt::Function
ParseFunction(p, kind) ==
    LET name == Consume(p, "IDENTIFIER",
                        IF kind = "function" THEN "Expect function name."
                        ELSE "Expect method name.")
        l == Consume(name.p, "LEFT_PAREN",
                     IF kind = "function" THEN "Expect '(' after function name."
                     ELSE "Expect '(' after method name.")
        first == Consume(l.p, "IDENTIFIER", "Expect parameter name.")
        params == IF Check(l.p, "RIGHT_PAREN") THEN POk(l.p, <<>>)
                  ELSE IF ~first.ok THEN first
                  ELSE ParamsRest(POk(first.p, <<first.node>>), LoopChunk,
                                  MaxParameters + 1)
        r == Consume(params.p, "RIGHT_PAREN", "Expect ')' after parameters.")
        b == Consume(r.p, "LEFT_BRACE",
                     IF kind = "function" THEN "Expect '{' before function body."
                     ELSE "Expect '{' before method body.")
        body == ParserMethod("Block", <<b.p>>)
    IN  IF ~name.ok THEN name
        ELSE IF ~l.ok THEN l
        ELSE IF ~params.ok THEN params
        ELSE IF ~r.ok THEN r
        ELSE IF ~b.ok THEN b
        ELSE IF ~body.ok THEN body
        ELSE POk(body.p, FunctionStmt(name.node, params.node, body.node))

\* while !self.check(RIGHT_BRACE) && !self.is_at_end() { methods.push(..) }
MethodsRest(p, methods) ==
    IF ~Check(p, "RIGHT_BRACE") /\ ~IsAtEnd(p)
    THEN LET m == ParserMethod("ParseFunction", <<p, "method">>)
         IN  IF ~m.ok THEN m
             ELSE ParserMethod("MethodsRest", <<m.p, Append(methods, m.node)>>)
    ELSE POk(p, methods)

\* Parser::class_declaration
ClassDeclaration(p) ==
    LET name == Consume(p, "IDENTIFIER", "Expect class name")
        super == IF Tmatch(name.p, {"LESS"})
                 THEN LET s == Consume(Advance(name.p), "IDENTIFIER",
                                       "Expect superclass name.")
                      IN  IF ~s.ok THEN s ELSE POk(s.p, VariableExpr(s.node))
                 ELSE POk(name.p, NoneNode)
        l == Consume(super.p, "LEFT_BRACE", "Expect '{' before class body.")
        methods == ParserMethod("MethodsRest", <<l.p, <<>>>>)
        r == Consume(methods.p, "RIGHT_BRACE", "Expect '}' after class body.")
    IN  IF ~name.ok THEN name
        ELSE IF ~super.ok THEN super
        ELSE IF ~l.ok THEN l
        ELSE IF ~methods.ok THEN methods
        ELSE IF ~r.ok THEN r
        ELSE POk(r.p, ClassStmt(name.node, super.node, methods.node))

\* declaration whose catch prints the message and does not synchronize
DeclarationUnsynchronized(p) ==
    LET p1 == Advance(p)
        r == CASE Tmatch(p, {"CLASS"}) -> ParserMethod("ClassDeclaration", <<p1>>)
               [] Tmatch(p, {"FUN"}) -> ParserMethod("ParseFunction", <<p1, "function">>)
               [] Tmatch(p, {"VAR"}) -> VarDeclaration(p1)
               [] OTHER -> ParserMethod("Statement", <<p>>)
    IN  IF r.ok THEN r
        ELSE [p |-> [r.p EXCEPT !.had_error = p.had_error,
                                !.errs = Append(@, r.err)],
              node |-> NoneNode, ok |-> FALSE, err |-> r.err]

\* Parser::declaration.  The method runs on a clone of the parser: `current`
\* is an Arc shared with the clone, had_error is the clone's own.  On success
\* the clone replaces self; on a throw the message is printed, self keeps the
\* had_error it had, and the parser synchronizes from where the clone stopped.
\* ok = FALSE is the None the method returns.
Declaration(p) ==
    LET p1 == Advance(p)
        r == CASE Tmatch(p, {"CLASS"}) -> ParserMethod("ClassDeclaration", <<p1>>)
               [] Tmatch(p, {"FUN"}) -> ParserMethod("ParseFunction", <<p1, "function">>)
               [] Tmatch(p, {"VAR"}) -> VarDeclaration(p1)
               [] OTHER -> ParserMethod("Statement", <<p>>)
    IN  IF r.ok THEN r
        ELSE [p |-> Synchronize([r.p EXCEPT !.had_error = p.had_error,
                                            !.errs = Append(@, r.err)]),
              node |-> NoneNode, ok |-> FALSE, err |-> r.err]

\* The methods of the Parser call one another through ParserMethod: the
\* method of that name applied to the arguments a.
ParserMethod(method, a) ==
    CASE method = "Expression" -> Expression(a[1])
      [] method = "Assignment" -> Assignment(a[1])
      [] method = "BinaryRest" -> BinaryRest(a[1], a[2], a[3])
      [] method = "Or" -> Or(a[1])
      [] method = "Unary" -> Unary(a[1])
      [] method = "CallRest" -> CallRest(a[1], a[2])
      [] method = "Primary" -> Primary(a[1])
      [] method = "Statement" -> Statement(a[1])
      [] method = "Declaration" -> Declaration(a[1])
      [] method = "Block" -> Block(a[1])
      [] method = "IfStatement" -> IfStatement(a[1])
      [] method = "WhileStatement" -> WhileStatement(a[1])
      [] method = "ForStatement" -> ForStatement(a[1])
      [] method = "ParseFunction" -> ParseFunction(a[1], a[2])
      [] method = "ClassDeclaration" -> ClassDeclaration(a[1])
      [] method = "MethodsRest" -> MethodsRest(a[1], a[2])

\* one turn of `while !self.is_at_end() { ... }` in Parser::parse: the
\* parser after it and the statements so far
ParseStep(p, stmts) ==
    LET Parsed(d) ==
            IF d.ok
            THEN [p |-> Turn(p, d.p), stmts |-> Append(stmts, d.node)]
            ELSE [p |-> [Turn(p, d.p) EXCEPT !.had_error = TRUE],
                  stmts |-> stmts]
    IN  Parsed(ParserMethod("Declaration", <<p>>))

(***************************************************************************)
(* The side table Interpreter.locals: HashMap<expr::Expr, usize>           *)
(* (src/src/interpreter.rs).  Expr derives PartialEq, Eq and Hash          *)
(* (src/src/ast.rs), and so does Token: the key of an expression is its    *)
(* structure, tokens compared by kind, lexeme, literal and line.           *)
(***************************************************************************)

RECURSIVE ExprKey(_)
\* #[derive(PartialEq, Eq, Hash)] on Expr and its structs
ExprKey(e) ==
    CASE e.type \in {"Binary", "Logical"} ->
            [type |-> e.type, left |-> ExprKey(e.left),
             operator |-> TokenKey(e.operator), right |-> ExprKey(e.right)]
      [] e.type = "Unary" ->
            [type |-> e.type, operator |-> TokenKey(e.operator),
             right |-> ExprKey(e.right)]
      [] e.type = "Literal" -> e
      [] e.type = "Grouping" ->
            [type |-> e.type, expression |-> ExprKey(e.expression)]
      [] e.type = "Variable" -> [type |-> e.type, name |-> TokenKey(e.name)]
      [] e.type = "Assign" ->
            [type |-> e.type, name |-> TokenKey(e.name),
             value |-> ExprKey(e.value)]
      [] e.type = "Call" ->
            [type |-> e.type, callee |-> ExprKey(e.callee),
             paren |-> TokenKey(e.paren),
             arguemnts |-> [i \in 1..Len(e.arguemnts) |->
                                ExprKey(e.arguemnts[i])]]
      [] e.type = "Get" ->
            [type |-> e.type, object |-> ExprKey(e.object),
             name |-> TokenKey(e.name)]
      [] e.type = "Set" ->
            [type |-> e.type, object |-> ExprKey(e.object),
             name |-> TokenKey(e.name), value |-> ExprKey(e.value)]
      [] e.type = "This" -> [type |-> e.type, keyword |-> TokenKey(e.keyword)]
      [] e.type = "Super" ->
            [type |-> e.type, keyword |-> TokenKey(e.keyword),
             method |-> TokenKey(e.method)]

\* HashMap::new
EmptyMap == <<>>

\* HashMap::contains_key
ContainsKey(map, k) == k \in DOMAIN map

\* TRUE, once v is evaluated.  An operator's argument is evaluated on its
\* first use, and a loop that only hands its state on would leave the whole
\* list to be evaluated at its end, each turn inside the next.
Evaluated(v) == v = v

\* HashMap::insert: an equal key is replaced
MapInsert(map, k, v) == (k :> v) @@ map

\* Interpreter::resolve
InterpreterResolve(locals, expr, depth) == MapInsert(locals, ExprKey(expr), depth)

\* self.locals.get(expr): the depth, or NoDepth for None
NoDepth == -1

LocalsGet(locals, expr) ==
    IF ContainsKey(locals, ExprKey(expr)) THEN locals[ExprKey(expr)] ELSE NoDepth

(***************************************************************************)
(* Resolver  (src/src/resolver.rs)                                         *)
(*                                                                         *)
(* The resolver r holds the scope stack, current_function, current_class,  *)
(* had_error, what it printed (errs) and the interpreter's locals, which   *)
(* it shares with the Lox's interpreter through the Arc.  r.resolved lists *)
(* the calls of resolve_local in order, of every resolver made from the    *)
(* interpreter: the occurrence (the pos and run of its name token), the    *)
(* key of the side table, the kind of expression and the depth found       *)
(* (NoDepth when no scope holds the name).  r.trail lists the calls of     *)
(* resolve_stmt as they return: the statement and what the resolver held   *)
(* before and after it.                                                    *)
(***************************************************************************)

\* Resolver::new
ResolverNew(locals) ==
    [scopes |-> <<>>, current_function |-> "None", current_class |-> "None",
     had_error |-> FALSE, errs |-> <<>>, locals |-> locals, resolved |-> <<>>,
     trail |-> <<>>]

\* Resolver::report_error
ResolverReportError(r, token, msg) ==
    [r EXCEPT !.had_error = TRUE, !.errs = Append(@, Diagnostic(token, msg))]

\* Resolver::begin_scope
BeginScope(r) == [r EXCEPT !.scopes = Append(@, EmptyMap)]

\* end_scope without the pop
EndScopeLeaves(r) == r

\* Resolver::end_scope
EndScope(r) ==
    IF r.scopes = <<>> THEN r
    ELSE [r EXCEPT !.scopes = SubSeq(@, 1, Len(@) - 1)]

\* self.scopes.last_mut().unwrap().insert(name, value)
ScopeInsert(r, name, value) ==
    [r EXCEPT !.scopes[Len(r.scopes)] = MapInsert(@, name, value)]

\* Resolver::declare
Declare(r, name) ==
    IF r.scopes = <<>> THEN r
    ELSE ScopeInsert(
            IF ContainsKey(r.scopes[Len(r.scopes)], name.lexeme)
            THEN ResolverReportError(r, name,
                    "Already a variable with this name in this scope.")
            ELSE r,
            name.lexeme, FALSE)

\* Resolver::define
Define(r, name) ==
    IF r.scopes = <<>> THEN r ELSE ScopeInsert(r, name.lexeme, TRUE)

RECURSIVE FindScope(_, _, _)
\* for (depth, scope) in self.scopes.iter().rev().enumerate(): the depth of
\* the first scope that holds the name, NoDepth when none does
FindScope(scopes, lexeme, depth) ==
    IF depth >= Len(scopes) THEN NoDepth
    ELSE IF ContainsKey(scopes[Len(scopes) - depth], lexeme) THEN depth
    ELSE FindScope(scopes, lexeme, depth + 1)

\* Resolver::resolve_local
ResolveLocal(r, expr, name) ==
    LET depth == FindScope(r.scopes, name.lexeme, 0)
        seen == Append(r.resolved,
                       [pos |-> name.pos, run |-> name.run,
                        key |-> ExprKey(expr), type |-> expr.type,
                        depth |-> depth])
    IN  IF depth # NoDepth
        THEN [r EXCEPT !.locals = InterpreterResolve(@, expr, depth),
                       !.resolved = seen]
        ELSE [r EXCEPT !.resolved = seen]

RECURSIVE ResolverMethod(_, _)
RECURSIVE DeclareParamsFrom(_, _, _)

\* Resolver::resolve_stmts
ResolveStmtsFrom(r, statements, i) ==
    IF i > Len(statements) THEN r
    ELSE LET r1 == ResolverMethod("ResolveStmt", <<r, statements[i]>>)
         IN  IF Evaluated(r1) THEN ResolverMethod("ResolveStmtsFrom", <<r1, statements, i + 1>>)
             ELSE r1

ResolveStmts(r, statements) == ResolverMethod("ResolveStmtsFrom", <<r, statements, 1>>)

\* for argument in &expr.arguemnts { self.resolve_expr(argument); }
ResolveExprsFrom(r, exprs, i) ==
    IF i > Len(exprs) THEN r
    ELSE LET r1 == ResolverMethod("ResolveExpr", <<r, exprs[i]>>)
         IN  IF Evaluated(r1) THEN ResolverMethod("ResolveExprsFrom", <<r1, exprs, i + 1>>) ELSE r1

\* for param in &function.params { self.declare(param); self.define(param); }
DeclareParamsFrom(r, params, i) ==
    IF i > Len(params) THEN r
    ELSE DeclareParamsFrom(Define(Declare(r, params[i]), params[i]), params, i + 1)

\* resolve_function without `self.current_function = enclosing_function`
ResolveFunctionKeeps(r, function, ftype) ==
    EndScope(ResolveStmts(DeclareParamsFrom(
        BeginScope([r EXCEPT !.current_function = ftype]),
        function.params, 1), function.body))

\* Resolver::resolve_function
ResolveFunction(r, function, ftype) ==
    LET enclosing_function == r.current_function
        r1 == BeginScope([r EXCEPT !.current_function = ftype])
        r2 == DeclareParamsFrom(r1, function.params, 1)
        r3 == EndScope(ResolveStmts(r2, function.body))
    IN  [r3 EXCEPT !.current_function = enclosing_function]

\* for method in &stmt.methods { ... self.resolve_function(method, declaration) }
ResolveMethodsFrom(r, methods, i) ==
    IF i > Len(methods) THEN r
    ELSE LET r1 == ResolverMethod("ResolveFunction", <<r, methods[i],
                        IF methods[i].name.lexeme = <<"i", "n", "i", "t">>
                        THEN "Initializer" ELSE "Method">>)
         IN  IF Evaluated(r1) THEN ResolverMethod("ResolveMethodsFrom", <<r1, methods, i + 1>>)
             ELSE r1

\* Resolver::visit_return_stmt
ResolveReturnStmt(r, stmt) ==
    LET r1 == IF r.current_function = "None"
              THEN ResolverReportError(r, stmt.keyword,
                                       "Can't return from top-level code.\n")
              ELSE r
    IN  IF IsSome(stmt.value)
        THEN ResolverMethod("ResolveExpr", <<
                IF r1.current_function = "Initializer"
                THEN ResolverReportError(r1, stmt.keyword,
                        "Can't return a value from an initializer.")
                ELSE r1,
                stmt.value>>)
        ELSE r1

\* visit_class_stmt without `self.current_class = enclosing_class`
ResolveClassStmtKeeps(r, stmt) ==
    LET r1 == Define([r EXCEPT !.current_class = "Class"], stmt.name)
        r2 == IF IsSome(stmt.superclass)
              THEN ResolverMethod("ResolveExpr", <<
                      [(IF stmt.name.lexeme = stmt.superclass.name.lexeme
                        THEN ResolverReportError(r1, stmt.name,
                                "A class can't inherit from itself.")
                        ELSE r1) EXCEPT !.current_class = "SubClass"],
                      stmt.superclass>>)
              ELSE r1
        r3 == IF IsSome(stmt.superclass)
              THEN ScopeInsert(BeginScope(r2), <<"s", "u", "p", "e", "r">>, TRUE)
              ELSE r2
        r4 == ScopeInsert(BeginScope(r3), <<"t", "h", "i", "s">>, TRUE)
        r5 == EndScope(ResolverMethod("ResolveMethodsFrom", <<r4, stmt.methods, 1>>))
        r6 == IF IsSome(stmt.superclass) THEN EndScope(r5) ELSE r5
    IN  r6

\* Resolver::visit_class_stmt
ResolveClassStmt(r, stmt) ==
    LET enclosing_class == r.current_class
        r1 == Define([r EXCEPT !.current_class = "Class"], stmt.name)
        r2 == IF IsSome(stmt.superclass)
              THEN ResolverMethod("ResolveExpr", <<
                      [(IF stmt.name.lexeme = stmt.superclass.name.lexeme
                        THEN ResolverReportError(r1, stmt.name,
                                "A class can't inherit from itself.")
                        ELSE r1) EXCEPT !.current_class = "SubClass"],
                      stmt.superclass>>)
              ELSE r1
        r3 == IF IsSome(stmt.superclass)
              THEN ScopeInsert(BeginScope(r2), <<"s", "u", "p", "e", "r">>, TRUE)
              ELSE r2
        r4 == ScopeInsert(BeginScope(r3), <<"t", "h", "i", "s">>, TRUE)
        r5 == EndScope(ResolverMethod("ResolveMethodsFrom", <<r4, stmt.methods, 1>>))
        r6 == IF IsSome(stmt.superclass) THEN EndScope(r5) ELSE r5
    IN  [r6 EXCEPT !.current_class = enclosing_class]

\* impl stmt::Visit<()> for Resolver
VisitStmt(r, stmt) ==
    CASE stmt.type = "Block" ->
            EndScope(ResolveStmts(BeginScope(r), stmt.statements))
      [] stmt.type = "Expression" -> ResolverMethod("ResolveExpr", <<r, stmt.expression>>)
      [] stmt.type = "Function" ->
            ResolverMethod("ResolveFunction", <<Define(Declare(r, stmt.name), stmt.name), stmt,
                            "Function">>)
      [] stmt.type = "If" ->
            LET r1 == ResolverMethod("ResolveStmt", <<ResolverMethod("ResolveExpr", <<r, stmt.condition>>), stmt.then_branch>>)
            IN  IF IsSome(stmt.else_branch)
                THEN ResolverMethod("ResolveStmt", <<r1, stmt.else_branch>>)
                ELSE r1
      [] stmt.type = "Print" -> ResolverMethod("ResolveExpr", <<r, stmt.expression>>)
      [] stmt.type = "Var" ->
            LET r1 == Declare(r, stmt.name)
                r2 == IF IsSome(stmt.initializer)
                      THEN ResolverMethod("ResolveExpr", <<r1, stmt.initializer>>)
                      ELSE r1
            IN  Define(r2, stmt.name)
      [] stmt.type = "Return" -> ResolveReturnStmt(r, stmt)
      [] stmt.type = "While" ->
            ResolverMethod("ResolveStmt", <<ResolverMethod("ResolveExpr", <<r, stmt.condition>>), stmt.body>>)
      [] stmt.type = "Class" -> ResolveClassStmt(r, stmt)

\* what the resolver holds between two statements
Held(r) ==
    [scopes |-> r.scopes, current_function |-> r.current_function,
     current_class |-> r.current_class, errors |-> Len(r.errs)]

\* Resolver::resolve_stmt: statement.accept(self)
ResolveStmt(r, stmt) ==
    LET after == VisitStmt(r, stmt)
    IN  [after EXCEPT !.trail =
            Append(@, [type |-> stmt.type,
                       declares |-> IF stmt.type \in {"Var", "Function", "Class"}
                                    THEN <<stmt.name.lexeme>> ELSE <<>>,
                       superclass |-> stmt.type = "Class" /\ IsSome(stmt.superclass),
                       before |-> Held(r), after |-> Held(after)])]

\* Resolver::visit_variable_expr
ResolveVariableExpr(r, expr) ==
    ResolveLocal(
        IF /\ r.scopes # <<>>
           /\ ContainsKey(r.scopes[Len(r.scopes)], expr.name.lexeme)
           /\ r.scopes[Len(r.scopes)][expr.name.lexeme] = FALSE
        THEN ResolverReportError(r, expr.name,
                "Can't read local variable in its own initializer.")
        ELSE r,
        expr, expr.name)

\* Resolver::visit_this_expr
ResolveThisExpr(r, expr) ==
    ResolveLocal(
        IF r.current_class = "None"
        THEN ResolverReportError(r, expr.keyword,
                "Can't use 'this' outside of a class.")
        ELSE r,
        expr, expr.keyword)

\* Resolver::visit_super_expr
ResolveSuperExpr(r, expr) ==
    ResolveLocal(
        IF r.current_class = "None"
        THEN ResolverReportError(r, expr.keyword,
                "Can't use 'super' outside of a class.\n")
        ELSE IF r.current_class # "SubClass"
        THEN ResolverReportError(r, expr.keyword,
                "Can't use 'super' in a class with no superclass.\n")
        ELSE r,
        expr, expr.keyword)

\* impl expr::Visit<()> for Resolver
ResolveExpr(r, expr) ==
    CASE expr.type \in {"Binary", "Logical"} ->
            ResolverMethod("ResolveExpr", <<ResolverMethod("ResolveExpr", <<r, expr.left>>), expr.right>>)
      [] expr.type = "Call" ->
            ResolverMethod("ResolveExprsFrom", <<ResolverMethod("ResolveExpr", <<r, expr.callee>>), expr.arguemnts, 1>>)
      [] expr.type = "Assign" ->
            ResolveLocal(ResolverMethod("ResolveExpr", <<r, expr.value>>), expr, expr.name)
      [] expr.type = "Grouping" -> ResolverMethod("ResolveExpr", <<r, expr.expression>>)
      [] expr.type = "Literal" -> r
      [] expr.type = "Unary" -> ResolverMethod("ResolveExpr", <<r, expr.right>>)
      [] expr.type = "Variable" -> ResolveVariableExpr(r, expr)
      [] expr.type = "Get" -> ResolverMethod("ResolveExpr", <<r, expr.object>>)
      [] expr.type = "Set" ->
            ResolverMethod("ResolveExpr", <<ResolverMethod("ResolveExpr", <<r, expr.value>>), expr.object>>)
      [] expr.type = "This" -> ResolveThisExpr(r, expr)
      [] expr.type = "Super" -> ResolveSuperExpr(r, expr)

\* The methods of the Resolver call one another through ResolverMethod: the
\* method of that name applied to the arguments a.
ResolverMethod(method, a) ==
    CASE method = "ResolveStmt" -> ResolveStmt(a[1], a[2])
      [] method = "ResolveExpr" -> ResolveExpr(a[1], a[2])
      [] method = "ResolveStmtsFrom" -> ResolveStmtsFrom(a[1], a[2], a[3])
      [] method = "ResolveExprsFrom" -> ResolveExprsFrom(a[1], a[2], a[3])
      [] method = "ResolveFunction" -> ResolveFunction(a[1], a[2], a[3])
      [] method = "ResolveMethodsFrom" -> ResolveMethodsFrom(a[1], a[2], a[3])

(***************************************************************************)
(* Values  (src/src/interpreter/object.rs and object/*.rs)                 *)
(***************************************************************************)

\* Option<T>: None is <<>>, Some(v) is <<v>>
None == <<>>

Some(v) == <<v>>

\* LoxFunction::new
LoxFunctionNew(declaration, closure, is_initializer) ==
    [native |-> FALSE, declaration |-> declaration, closure |-> closure,
     is_initializer |-> is_initializer]

\* Clock {}
Clock == [native |-> TRUE]

\* obj!(function; @rr ObjectInner::Function): ptr is the address of the Arc
FunctionObj(ptr, callable) ==
    [kind |-> "Function", ptr |-> ptr, callable |-> callable]

\* LoxClass::new: superclass is an Option
LoxClassNew(name, superclass, methods) ==
    [name |-> name, superclass |-> superclass, methods |-> methods]

ClassObj(class) == [kind |-> "Class", class |-> class]

\* LoxInstance: fields is the Arc of the instance's field map, an index
\* into the machine's list of field maps
InstanceObj(class, fields) ==
    [kind |-> "Instance", class |-> class, fields |-> fields]

\* Object::is_num, is_str, is_fun, is_null, is_class
is_num(v) == v.kind = "Number"

is_str(v) == v.kind = "String"

is_fun(v) == v.kind \in {"Function", "Class"}

is_null(v) == v.kind = "Nil"

is_class(v) == v.kind = "Class"

\* impl PartialEq for Object
ObjectEq(a, b) ==
    CASE a.kind = "Instance" /\ b.kind = "Instance" ->
            a.class.name = b.class.name
      [] a.kind = "Class" /\ b.kind = "Class" -> a.class.name = b.class.name
      [] a.kind = "Number" /\ b.kind = "Number" -> a = b
      [] a.kind = "String" /\ b.kind = "String" -> a.str = b.str
      [] a.kind = "Bool" /\ b.kind = "Bool" -> a.bool = b.bool
      [] a.kind = "Nil" /\ b.kind = "Nil" -> TRUE
      [] a.kind = "Function" /\ b.kind = "Function" -> a.ptr = b.ptr
      [] OTHER -> FALSE

\* is_equal
is_equal(right, left) == ObjectEq(right, left)

\* is_truthy
is_truthy(v) ==
    IF is_null(v) THEN FALSE
    ELSE IF v.kind = "Bool" THEN v.bool
    ELSE TRUE

\* stringify and the Display impls: what println! is given.  A number or a
\* string prints as itself, the others by what their Display writes.
Stringify(v) ==
    CASE v.kind \in {"Number", "String", "Bool"} -> v
      [] v.kind = "Nil" -> [kind |-> "Text", text |-> "Null"]
      [] v.kind = "Class" -> [kind |-> "Class", name |-> v.class.name]
      [] v.kind = "Instance" -> [kind |-> "Instance", name |-> v.class.name]
      [] v.kind = "Function" -> [kind |-> "Text", text |-> "<function>"]

RECURSIVE FindMethod(_, _)
\* LoxClass::find_method: an Option<LoxFunction>
FindMethod(class, name) ==
    IF ContainsKey(class.methods, name) THEN Some(class.methods[name])
    ELSE IF class.superclass # None THEN FindMethod(class.superclass[1], name)
    ELSE None

\* LoxFunction::arity
LoxFunctionArity(fn) == IF fn.native THEN 0 ELSE Len(fn.declaration.params)

\* an arity that looks for `init` among the class's own methods only
LoxClassArityOwn(class) ==
    IF ContainsKey(class.methods, <<"i", "n", "i", "t">>)
    THEN LoxFunctionArity(class.methods[<<"i", "n", "i", "t">>])
    ELSE 0

\* LoxClass::arity
LoxClassArity(class) ==
    LET initializer == FindMethod(class, <<"i", "n", "i", "t">>)
    IN  IF initializer # None THEN LoxFunctionArity(initializer[1]) ELSE 0

(***************************************************************************)
(* Environment  (src/src/interpreter/environment.rs)                       *)
(*                                                                         *)
(* Environments live in a list, m.envs; an Arc<RwLock<Environment>> is an  *)
(* index into it and NoEnv is the None of `enclosing`.  values maps a name *)
(* to an Option<Object>.                                                   *)
(***************************************************************************)

NoEnv == 0

\* Environment::new, behind a new Arc: the environment is Len(envs) after
EnvironmentNew(envs, enclosing) ==
    Append(envs, [values |-> EmptyMap, enclosing |-> enclosing])

\* Environment::define
EnvDefine(envs, env, name, value) ==
    [envs EXCEPT ![env].values = MapInsert(@, name, value)]

RECURSIVE EnvGet(_, _, _)
\* Environment::get: Some(value), or None where the code throws
EnvGet(envs, env, lexeme) ==
    IF /\ ContainsKey(envs[env].values, lexeme)
       /\ envs[env].values[lexeme] # None
    THEN envs[env].values[lexeme]
    ELSE IF envs[env].enclosing # NoEnv
    THEN EnvGet(envs, envs[env].enclosing, lexeme)
    ELSE None

RECURSIVE Ancestor(_, _, _)
\* Environment::ancestor: NoEnv where `enclosing.as_ref().unwrap()` panics
Ancestor(envs, env, distance) ==
    IF distance = 0 THEN env
    ELSE IF envs[env].enclosing = NoEnv THEN NoEnv
    ELSE Ancestor(envs, envs[env].enclosing, distance - 1)

\* Environment::get_at: Some(value), or None where one of the unwraps panics
EnvGetAt(envs, env, distance, name) ==
    LET a == Ancestor(envs, env, distance)
    IN  IF a = NoEnv THEN None
        ELSE IF ~ContainsKey(envs[a].values, name) THEN None
        ELSE envs[a].values[name]

RECURSIVE EnvAssignTarget(_, _, _)
\* Environment::assign: the environment whose entry is occupied, NoEnv where
\* the code throws
EnvAssignTarget(envs, env, lexeme) ==
    IF ContainsKey(envs[env].values, lexeme) THEN env
    ELSE IF envs[env].enclosing # NoEnv
    THEN EnvAssignTarget(envs, envs[env].enclosing, lexeme)
    ELSE NoEnv

(***************************************************************************)
(* Interpreter  (src/src/interpreter.rs)                                   *)
(*                                                                         *)
(* The machine m is an Interpreter with the heap it points into:           *)
(*   environment, globals   indices into envs                              *)
(*   locals                 the side table                                 *)
(*   envs                   the environments                               *)
(*   fields                 the field maps of the instances                *)
(*   nptr                   the number of function Arcs allocated          *)
(*   depth                  the number of calls in progress                *)
(*   resolved               the resolver's history, read only by the       *)
(*                          properties' records                            *)
(*   out                    what println! has written                      *)
(*   events                 a history of what the run did, read only by    *)
(*                          the properties                                 *)
(* A visit returns [m, ctl, val]: the machine after it, how it ended and   *)
(* the value.  ctl.kind is "normal", or the exception the code threw       *)
(* ("ReturnException", "RuntimeError", "String"), or "panic".              *)
(***************************************************************************)

ThisName == <<"t", "h", "i", "s">>

SuperName == <<"s", "u", "p", "e", "r">>

InitName == <<"i", "n", "i", "t">>

ClockName == <<"c", "l", "o", "c", "k">>

Normal == [kind |-> "normal"]

\* RuntimeError::new
RuntimeErrorNew(token, message) ==
    [kind |-> "RuntimeError", token |-> token, message |-> message]

\* ReturnException(value): the value travels in val
ReturnException == [kind |-> "ReturnException"]

\* format!("Undefined variable '{}'.\n[line {}]", lexeme, line): a String
UndefinedVariable(token) ==
    [kind |-> "String", token |-> token, message |-> "Undefined variable"]

\* a panic: a failed unwrap, or the panic of a thread that is not caught
PanicWith(message) == [kind |-> "panic", message |-> message]

UnwrapNone == PanicWith("called Option::unwrap() on a None value")

Ok(m, v) == [m |-> m, ctl |-> Normal, val |-> v]

Throw(m, exception) == [m |-> m, ctl |-> exception, val |-> NullObj]

Completed(r) == r.ctl.kind = "normal"

Log(m, e) == [m EXCEPT !.events = Append(@, e)]

\* The depth the resolver computed for the occurrence whose token is name
\* (NoDepth: global, or not an occurrence), from its history `resolved`.
\* The side table answers for the key; this answers for the occurrence.
TrueDepth(resolved, name) ==
    LET I == {i \in DOMAIN resolved :
                    resolved[i].pos = name.pos /\ resolved[i].run = name.run}
    IN  IF I = {} THEN NoDepth ELSE resolved[CHOOSE i \in I : TRUE].depth

\* the frame `truth` links above env, the globals for NoDepth
TrueFrame(m, env, truth) ==
    IF truth = NoDepth THEN m.globals ELSE Ancestor(m.envs, env, truth)

\* the record of one access to a binding: the frame it reached and the frame
\* the resolver meant for this occurrence
Access(m, ev, pos, env, distance, truth, name, reached, found, value) ==
    Log(m, [ev |-> ev, pos |-> pos, env |-> env, distance |-> distance,
            truth |-> truth, name |-> name, reached |-> reached,
            binding |-> TrueFrame(m, env, truth), found |-> found,
            val |-> value, depth |-> m.depth])

\* Environment::get_at on env
get_at(m, env, distance, name, pos, truth) ==
    LET v == EnvGetAt(m.envs, env, distance, name)
        m1 == Access(m, "get_at", pos, env, distance, truth, name,
                     Ancestor(m.envs, env, distance), v # None,
                     IF v # None THEN v[1] ELSE NullObj)
    IN  IF v = None THEN Throw(m1, UnwrapNone) ELSE Ok(m1, v[1])

\* a lookup of a name without an entry in the side table that walks the
\* chain of the current environment
environment_get(m, name, truth) ==
    LET v == EnvGet(m.envs, m.environment, name.lexeme)
        m1 == Access(m, "get", name.pos, m.environment, NoDepth, truth,
                     name.lexeme, m.globals, v # None,
                     IF v # None THEN v[1] ELSE NullObj)
    IN  IF v = None THEN Throw(m1, UndefinedVariable(name)) ELSE Ok(m1, v[1])

\* self.globals.get(name)
globals_get(m, name, truth) ==
    LET v == EnvGet(m.envs, m.globals, name.lexeme)
        m1 == Access(m, "get", name.pos, m.environment, NoDepth, truth,
                     name.lexeme, m.globals, v # None,
                     IF v # None THEN v[1] ELSE NullObj)
    IN  IF v = None THEN Throw(m1, UndefinedVariable(name)) ELSE Ok(m1, v[1])

\* Interpreter::lookup_variable
lookup_variable(m, name, expr) ==
    LET distance == LocalsGet(m.locals, expr)
        truth == TrueDepth(m.resolved, name)
    IN  IF distance # NoDepth
        THEN get_at(m, m.environment, distance, name.lexeme, name.pos, truth)
        ELSE globals_get(m, name, truth)

\* Environment::assign_at on self.environment
assign_at(m, distance, name, value, truth) ==
    LET a == Ancestor(m.envs, m.environment, distance)
        m1 == Access(m, "assign_at", name.pos, m.environment, distance, truth,
                     name.lexeme, a,
                     IF a = NoEnv THEN FALSE
                     ELSE ContainsKey(m.envs[a].values, name.lexeme), value)
    IN  IF a = NoEnv THEN Throw(m1, UnwrapNone)
        ELSE Ok([m1 EXCEPT !.envs = EnvDefine(@, a, name.lexeme, Some(value))],
                value)

\* an assign that defines the name in the receiver, wherever it is bound
assignDefines(m, env, name, value) ==
    Ok([m EXCEPT !.envs = EnvDefine(@, env, name.lexeme, Some(value))], value)

\* Environment::assign on env
assign(m, env, name, value) ==
    LET target == EnvAssignTarget(m.envs, env, name.lexeme)
    IN  IF target = NoEnv THEN Throw(m, UndefinedVariable(name))
        ELSE Ok([m EXCEPT !.envs = EnvDefine(@, target, name.lexeme,
                                             Some(value))], value)

\* self.globals.assign(name, value)
globals_assign(m, name, value, truth) ==
    LET target == EnvAssignTarget(m.envs, m.globals, name.lexeme)
    IN  assign(Access(m, "assign", name.pos, m.environment, NoDepth, truth,
                      name.lexeme, m.globals, target # NoEnv, value),
               m.globals, name, value)

\* what is_equal was asked and what it answered
IsEqualEvent(left, right) ==
    [ev |-> "is_equal", left |-> left, right |-> right,
     equal |-> is_equal(left, right)]

\* check_number_operands: TRUE where it returns
check_number_operands(operands) == \A i \in DOMAIN operands : is_num(operands[i])

\* f64 division on the integers that stand for the numbers: exact where the
\* quotient is whole; a zero divisor gives the infinities and NaN
Divide(left, right) ==
    IF right.num = 0 THEN [kind |-> "Number", num |-> 0, inf |-> TRUE]
    ELSE NumberObj(left.num \div right.num)

\* the match of visit_binary_expr on the operator, both operands evaluated
BinaryResult(m, operator, left, right) ==
    LET t == operator.ttype
        numbers == check_number_operands(<<left, right>>)
        mismatch == Throw(m, RuntimeErrorNew(operator, "Operands must be numbers."))
    IN  CASE t = "MINUS" ->
                IF numbers THEN Ok(m, NumberObj(left.num - right.num)) ELSE mismatch
          [] t = "PLUS" ->
                IF is_num(left) /\ is_num(right)
                THEN Ok(m, NumberObj(left.num + right.num))
                ELSE IF is_str(left) /\ is_str(right)
                THEN Ok(m, StringObj(left.str \o right.str))
                ELSE Throw(m, RuntimeErrorNew(operator,
                            "Operands must be two numbers or two strings."))
          [] t = "SLASH" -> IF numbers THEN Ok(m, Divide(left, right)) ELSE mismatch
          [] t = "STAR" ->
                IF numbers THEN Ok(m, NumberObj(left.num * right.num)) ELSE mismatch
          [] t = "GREATER" ->
                IF numbers THEN Ok(m, BoolObj(left.num > right.num)) ELSE mismatch
          [] t = "GREATER_EQUAL" ->
                IF numbers THEN Ok(m, BoolObj(left.num >= right.num)) ELSE mismatch
          [] t = "LESS" ->
                IF numbers THEN Ok(m, BoolObj(left.num < right.num)) ELSE mismatch
          [] t = "LESS_EQUAL" ->
                IF numbers THEN Ok(m, BoolObj(left.num <= right.num)) ELSE mismatch
          [] t = "BANG_EQUAL" ->
                Ok(Log(m, IsEqualEvent(left, right)), BoolObj(~is_equal(left, right)))
          [] t = "EQUAL_EQUAL" ->
                Ok(Log(m, IsEqualEvent(left, right)), BoolObj(is_equal(left, right)))
          [] OTHER -> Throw(m, PanicWith("unreachable"))

\* the match of visit_unary_expr on the operator
UnaryResult(m, operator, right) ==
    CASE operator.ttype = "MINUS" ->
            IF check_number_operands(<<right>>)
            THEN Ok(m, NumberObj(0 - right.num))
            ELSE Throw(m, RuntimeErrorNew(operator, "Operand must be a number."))
      [] operator.ttype = "BANG" -> Ok(m, BoolObj(~is_truthy(right)))
      [] OTHER -> Throw(m, PanicWith("unreachable"))

\* a new Arc<RwLock<dyn LoxCallable>> around callable
NewFunction(m, callable) ==
    Ok([m EXCEPT !.nptr = @ + 1], FunctionObj(m.nptr + 1, callable))

\* bind with `this` defined as a copy of the instance that has a field map
\* of its own (a deep clone where the code clones the Arc)
bindCopy(m, fn, instance) ==
    LET envs1 == EnvironmentNew(m.envs, fn.closure)
        e == Len(envs1)
        fields1 == Append(m.fields, m.fields[instance.fields])
    IN  [m |-> [m EXCEPT !.fields = fields1,
                         !.envs = EnvDefine(envs1, e, ThisName,
                                    Some(InstanceObj(instance.class, Len(fields1))))],
         fn |-> LoxFunctionNew(fn.declaration, e, fn.is_initializer)]

\* LoxFunction::bind: the machine with the new environment, and the function
bind(m, fn, instance) ==
    LET envs1 == EnvironmentNew(m.envs, fn.closure)
        e == Len(envs1)
    IN  [m |-> [m EXCEPT !.envs = EnvDefine(envs1, e, ThisName, Some(instance))],
         fn |-> LoxFunctionNew(fn.declaration, e, fn.is_initializer)]

\* what LoxInstance::get was asked and what it answered: the field map as
\* it found it, and the result
PropertyGet(instance, name, fields, r) ==
    [r EXCEPT !.m = Log(@, [ev |-> "instance_get", instance |-> instance,
                            name |-> name.lexeme, fields |-> fields,
                            result |-> r.ctl, val |-> r.val])]

\* LoxInstance::get
instance_get(m, instance, name) ==
    LET fields == m.fields[instance.fields]
        method == FindMethod(instance.class, name.lexeme)
    IN  PropertyGet(instance, name, fields,
            IF ContainsKey(fields, name.lexeme) THEN Ok(m, fields[name.lexeme])
            ELSE IF method # None
            THEN LET b == bind(m, method[1], instance) IN NewFunction(b.m, b.fn)
            ELSE Throw(m, RuntimeErrorNew(name, "Undefined property")))

\* LoxInstance::set
instance_set(m, instance, name, value) ==
    Log([m EXCEPT !.fields[instance.fields] = MapInsert(@, name.lexeme, value)],
        [ev |-> "instance_set", instance |-> instance, name |-> name.lexeme,
         value |-> value])

RECURSIVE DefineParams(_, _, _, _, _)
\* the loop of LoxFunction::call over params.iter().zip(arguemnts)
DefineParams(envs, env, params, arguemnts, i) ==
    IF i > Len(params) \/ i > Len(arguemnts) THEN envs
    ELSE DefineParams(EnvDefine(envs, env, params[i].lexeme, Some(arguemnts[i])),
                      env, params, arguemnts, i + 1)

RECURSIVE MethodsMap(_, _, _, _)
\* the loop of visit_class_stmt over stmt.methods
MethodsMap(methods, closure, i, map) ==
    IF i > Len(methods) THEN map
    ELSE MethodsMap(methods, closure, i + 1,
                    MapInsert(map, methods[i].name.lexeme,
                              LoxFunctionNew(methods[i], closure,
                                             methods[i].name.lexeme = InitName)))

\* a call that goes on in the interpreter that executed the body: no clone
InterpreterShared(caller, callee) == callee

\* a single channel for `return` and for errors that gives back what was
\* returned, in an initializer too
CallOutcomeNaive(fn, r, back, this) ==
    IF r.ctl.kind = "panic" THEN Throw(back, r.ctl)
    ELSE IF r.ctl.kind = "ReturnException" THEN Ok(back, r.val)
    ELSE IF ~Completed(r)
    THEN IF fn.is_initializer THEN this
         ELSE IF r.ctl.kind = "RuntimeError" THEN Throw(back, r.ctl)
         ELSE Throw(back, UnwrapNone)
    ELSE IF fn.is_initializer THEN this
    ELSE Ok(back, NullObj)

\* `let mut interpreter = interpreter.clone()` in LoxFunction::call: the body
\* ran on the copy, whose heap is shared; the caller's own Interpreter keeps
\* the environment it had
InterpreterClone(caller, callee) ==
    [callee EXCEPT !.environment = caller.environment,
                   !.depth = caller.depth]

\* a call that ends on a ReturnException without taking its value
CallOutcomeDropsValue(fn, r, back, this) ==
    IF r.ctl.kind = "panic" THEN Throw(back, r.ctl)
    ELSE IF ~Completed(r)
    THEN IF fn.is_initializer THEN this
         ELSE IF r.ctl.kind = "ReturnException" THEN Ok(back, NullObj)
         ELSE IF r.ctl.kind = "RuntimeError" THEN Throw(back, r.ctl)
         ELSE Throw(back, UnwrapNone)
    ELSE IF fn.is_initializer THEN this
    ELSE Ok(back, NullObj)

\* what LoxFunction::call gives back, from r, the result of
\* catch(execute_block), and this, the result of closure.get_at(0, "this")
CallOutcome(fn, r, back, this) ==
    IF r.ctl.kind = "panic" THEN Throw(back, r.ctl)
    ELSE IF ~Completed(r)
    THEN IF fn.is_initializer THEN this
         ELSE IF r.ctl.kind = "ReturnException" THEN Ok(back, r.val)
         ELSE IF r.ctl.kind = "RuntimeError" THEN Throw(back, r.ctl)
         ELSE Throw(back, UnwrapNone)
    ELSE IF fn.is_initializer THEN this
    ELSE Ok(back, NullObj)

\* the restore at the end of execute_block, reached on normal completion only
RestoreEnvironment(r, previous) ==
    IF Completed(r) THEN [r.m EXCEPT !.environment = previous] ELSE r.m

RECURSIVE InterpreterMethod(_, _)

\* the loop of visit_call_expr over expr.arguemnts: val is the list
evaluate_args(m, arguemnts, i, acc) ==
    IF i > Len(arguemnts) THEN Ok(m, acc)
    ELSE LET a == InterpreterMethod("evaluate", <<m, arguemnts[i]>>)
         IN  IF ~Completed(a) THEN a
             ELSE InterpreterMethod("evaluate_args", <<a.m, arguemnts, i + 1, Append(acc, a.val)>>)

\* LoxFunction::call and Clock::call
LoxFunctionCall(m, fn, arguemnts) ==
    IF fn.native THEN Ok(m, NumberObj(0))
    ELSE
    LET envs1 == EnvironmentNew(m.envs, fn.closure)
        environment == Len(envs1)
        m1 == [m EXCEPT !.envs = DefineParams(envs1, environment,
                                 fn.declaration.params, arguemnts, 1),
                        !.depth = @ + 1]
        r == InterpreterMethod("execute_block", <<m1, fn.declaration.body, environment>>)
        back == InterpreterClone(m, r.m)
        this == get_at(back, fn.closure, 0, ThisName, 0, 0)
        res == CallOutcome(fn, r, back, this)
    IN  [res EXCEPT !.m = Log(@, [ev |-> "call",
                                  name |-> fn.declaration.name.lexeme,
                                  params |-> fn.declaration.params,
                                  arguemnts |-> arguemnts,
                                  bound |-> m1.envs[environment].values,
                                  is_initializer |-> fn.is_initializer,
                                  body |-> r.ctl, result |-> res.ctl,
                                  val |-> res.val,
                                  closure |-> fn.closure,
                                  before |-> m.environment,
                                  callee |-> r.m.environment,
                                  after |-> res.m.environment,
                                  depth |-> m.depth])]

\* LoxClass::call
LoxClassCall(m, class, arguemnts) ==
    LET m1 == [m EXCEPT !.fields = Append(@, EmptyMap)]
        instance == InstanceObj(class, Len(m1.fields))
        initializer == FindMethod(class, InitName)
        b == bind(m1, initializer[1], instance)
        r == IF initializer # None THEN InterpreterMethod("LoxFunctionCall", <<b.m, b.fn, arguemnts>>)
             ELSE Ok(m1, NullObj)
        res == IF r.ctl.kind = "normal" THEN Ok(r.m, instance) ELSE r
    IN  [res EXCEPT !.m = Log(@, [ev |-> "class_call", class |-> class.name,
                                  instances |-> Len(m.fields),
                                  has_init |-> initializer # None,
                                  body |-> IF initializer # None
                                           THEN r.m.events[Len(r.m.events)].body
                                           ELSE Normal,
                                  init |-> r.ctl, result |-> res.ctl,
                                  val |-> res.val])]

\* format!("Expected {} arguments but got {}.\n", arity, arguemnts.len())
\* in a RuntimeError: the text with what fills its two places
ArityError(paren, arity, len) ==
    [kind |-> "RuntimeError", token |-> paren,
     message |-> "Expected {} arguments but got {}.\n",
     expected |-> arity, got |-> len]

\* the record of one visit_call_expr on a callable: what arity() answered,
\* the arguments, how the visit ended and whether the machine is as it was
CallRecord(m, callee, arity, arguemnts, r) ==
    [r EXCEPT !.m = Log(@, [ev |-> "visit_call", callee |-> callee,
                            arity |-> arity, arguemnts |-> arguemnts,
                            result |-> r.ctl,
                            untouched |-> r.m = m])]

\* visit_call_expr, after the callee and the arguments are evaluated
CallValue(m, paren, callee, arguemnts) ==
    LET arity == IF callee.kind = "Function"
                 THEN LoxFunctionArity(callee.callable)
                 ELSE LoxClassArity(callee.class)
    IN  IF ~is_fun(callee)
        THEN Throw(m, RuntimeErrorNew(paren,
                        "Can only call functions and classes."))
        ELSE CallRecord(m, callee, arity, arguemnts,
                IF Len(arguemnts) # arity
                THEN Throw(m, ArityError(paren, arity, Len(arguemnts)))
                ELSE IF callee.kind = "Function"
                THEN InterpreterMethod("LoxFunctionCall",
                                       <<m, callee.callable, arguemnts>>)
                ELSE InterpreterMethod("LoxClassCall",
                                       <<m, callee.class, arguemnts>>))

\* visit_super_expr, after `distance` is read from the side table
SuperValue(m, expr, distance) ==
    LET truth == TrueDepth(m.resolved, expr.keyword)
        superclass == get_at(m, m.environment, distance, SuperName,
                             expr.keyword.pos, truth)
        object == get_at(superclass.m, m.environment, distance - 1, ThisName,
                         expr.keyword.pos, truth - 1)
        method == FindMethod(superclass.val.class, expr.method.lexeme)
        b == bind(object.m, method[1], object.val)
    IN  IF distance = NoDepth THEN Throw(m, UnwrapNone)
        ELSE IF ~Completed(superclass) THEN superclass
        ELSE IF distance = 0
        THEN Throw(superclass.m, PanicWith("attempt to subtract with overflow"))
        ELSE IF ~Completed(object) THEN object
        ELSE IF ~is_class(superclass.val) \/ object.val.kind # "Instance"
        THEN Throw(object.m, UnwrapNone)
        ELSE IF method # None THEN NewFunction(b.m, b.fn)
        ELSE Throw(object.m, RuntimeErrorNew(expr.method, "Undefined property"))

\* visit_super_expr, with the record of what it was asked and what it gave
visit_super_expr(m, expr) ==
    LET distance == LocalsGet(m.locals, expr)
        truth == TrueDepth(m.resolved, expr.keyword)
        r == SuperValue(m, expr, distance)
    IN  [r EXCEPT !.m = Log(@, [ev |-> "super", pos |-> expr.keyword.pos,
                method |-> expr.method.lexeme,
                superclass |-> EnvGetAt(m.envs, m.environment, truth, SuperName),
                object |-> EnvGetAt(m.envs, m.environment, truth - 1, ThisName),
                result |-> r.ctl, val |-> r.val])]

\* Interpreter::evaluate: expression.accept(self), the visit_*_expr methods
evaluate(m, expr) ==
    CASE expr.type = "Literal" -> Ok(m, expr.value)
      [] expr.type = "Grouping" -> InterpreterMethod("evaluate", <<m, expr.expression>>)
      [] expr.type = "Unary" ->
            LET right == InterpreterMethod("evaluate", <<m, expr.right>>)
            IN  IF ~Completed(right) THEN right
                ELSE UnaryResult(right.m, expr.operator, right.val)
      [] expr.type = "Binary" ->
            LET right == InterpreterMethod("evaluate", <<m, expr.right>>)
                left == InterpreterMethod("evaluate", <<right.m, expr.left>>)
            IN  IF ~Completed(right) THEN right
                ELSE IF ~Completed(left) THEN left
                ELSE BinaryResult(left.m, expr.operator, left.val, right.val)
      [] expr.type = "Variable" -> lookup_variable(m, expr.name, expr)
      [] expr.type = "Assign" ->
            LET value == InterpreterMethod("evaluate", <<m, expr.value>>)
                distance == LocalsGet(m.locals, expr)
            IN  IF ~Completed(value) THEN value
                ELSE IF distance # NoDepth
                THEN assign_at(value.m, distance, expr.name, value.val,
                               TrueDepth(m.resolved, expr.name))
                ELSE globals_assign(value.m, expr.name, value.val,
                                    TrueDepth(m.resolved, expr.name))
      [] expr.type = "Logical" ->
            LET left == InterpreterMethod("evaluate", <<m, expr.left>>)
            IN  IF ~Completed(left) THEN left
                ELSE IF expr.operator.ttype = "OR"
                THEN IF is_truthy(left.val) THEN left
                     ELSE InterpreterMethod("evaluate", <<left.m, expr.right>>)
                ELSE IF ~is_truthy(left.val) THEN left
                ELSE InterpreterMethod("evaluate", <<left.m, expr.right>>)
      [] expr.type = "Call" ->
            LET callee == InterpreterMethod("evaluate", <<m, expr.callee>>)
                arguemnts == InterpreterMethod("evaluate_args", <<callee.m, expr.arguemnts, 1, <<>>>>)
            IN  IF ~Completed(callee) THEN callee
                ELSE IF ~Completed(arguemnts) THEN arguemnts
                ELSE CallValue(arguemnts.m, expr.paren, callee.val,
                               arguemnts.val)
      [] expr.type = "Get" ->
            LET object == InterpreterMethod("evaluate", <<m, expr.object>>)
            IN  IF ~Completed(object) THEN object
                ELSE IF object.val.kind = "Instance"
                THEN instance_get(object.m, object.val, expr.name)
                ELSE Throw(object.m, RuntimeErrorNew(expr.name,
                            "Only instances have properties."))
      [] expr.type = "Set" ->
            LET object == InterpreterMethod("evaluate", <<m, expr.object>>)
                value == InterpreterMethod("evaluate", <<object.m, expr.value>>)
            IN  IF ~Completed(object) THEN object
                ELSE IF object.val.kind = "Instance"
                THEN IF ~Completed(value) THEN value
                     ELSE Ok(instance_set(value.m, object.val, expr.name,
                                          value.val), value.val)
                ELSE Throw(object.m, RuntimeErrorNew(expr.name,
                            "Only instances have fields."))
      [] expr.type = "This" -> lookup_variable(m, expr.keyword, expr)
      [] expr.type = "Super" -> visit_super_expr(m, expr)

\* visit_class_stmt, after the superclass is evaluated to an Option
ClassValue(m, stmt, superclass) ==
    LET envs1 == EnvDefine(m.envs, m.environment, stmt.name.lexeme, None)
        envs2 == EnvironmentNew(envs1, m.environment)
        m1 == IF superclass # None
              THEN [m EXCEPT !.envs = EnvDefine(envs2, Len(envs2), SuperName,
                                                superclass),
                             !.environment = Len(envs2)]
              ELSE [m EXCEPT !.envs = envs1]
        methods == MethodsMap(stmt.methods, m1.environment, 1, EmptyMap)
        class == ClassObj(LoxClassNew(stmt.name.lexeme,
                     IF superclass # None THEN Some(superclass[1].class)
                     ELSE None, methods))
        m2 == IF IsSome(stmt.superclass)
              THEN [m1 EXCEPT !.environment = m1.envs[m1.environment].enclosing]
              ELSE m1
    IN  assign(m2, m2.environment, stmt.name, class)

\* Interpreter::execute: stmt.accept(self), the visit_*_stmt methods
execute(m, stmt) ==
    CASE stmt.type = "Expression" -> InterpreterMethod("evaluate", <<m, stmt.expression>>)
      [] stmt.type = "Print" ->
            LET value == InterpreterMethod("evaluate", <<m, stmt.expression>>)
            IN  IF ~Completed(value) THEN value
                ELSE Ok([value.m EXCEPT !.out = Append(@, Stringify(value.val))],
                        NullObj)
      [] stmt.type = "Var" ->
            LET value == IF IsSome(stmt.initializer)
                         THEN InterpreterMethod("evaluate", <<m, stmt.initializer>>)
                         ELSE Ok(m, NullObj)
            IN  IF ~Completed(value) THEN value
                ELSE Ok([value.m EXCEPT !.envs =
                            EnvDefine(@, m.environment, stmt.name.lexeme,
                                      Some(value.val))], NullObj)
      [] stmt.type = "Block" ->
            LET envs1 == EnvironmentNew(m.envs, m.environment)
            IN  InterpreterMethod("execute_block", <<[m EXCEPT !.envs = envs1], stmt.statements,
                              Len(envs1)>>)
      [] stmt.type = "If" ->
            LET condition == InterpreterMethod("evaluate", <<m, stmt.condition>>)
            IN  IF ~Completed(condition) THEN condition
                ELSE IF is_truthy(condition.val)
                THEN InterpreterMethod("execute", <<condition.m, stmt.then_branch>>)
                ELSE IF IsSome(stmt.else_branch)
                THEN InterpreterMethod("execute", <<condition.m, stmt.else_branch>>)
                ELSE Ok(condition.m, NullObj)
      [] stmt.type = "While" -> InterpreterMethod("visit_while_stmt", <<m, stmt>>)
      [] stmt.type = "Function" ->
            LET function == NewFunction(m,
                              LoxFunctionNew(stmt, m.environment, FALSE))
            IN  Ok([function.m EXCEPT !.envs =
                        EnvDefine(@, m.environment, stmt.name.lexeme,
                                  Some(function.val))], NullObj)
      [] stmt.type = "Return" ->
            LET value == IF IsSome(stmt.value) THEN InterpreterMethod("evaluate", <<m, stmt.value>>)
                         ELSE Ok(m, NullObj)
            IN  IF ~Completed(value) THEN value
                ELSE [m |-> Log(value.m, [ev |-> "return", val |-> value.val,
                                          depth |-> value.m.depth]),
                      ctl |-> ReturnException, val |-> value.val]
      [] stmt.type = "Class" ->
            LET superclass == InterpreterMethod("evaluate", <<m, stmt.superclass>>)
            IN  IF ~IsSome(stmt.superclass) THEN ClassValue(m, stmt, None)
                ELSE IF ~Completed(superclass) THEN superclass
                ELSE IF ~is_class(superclass.val)
                THEN Throw(superclass.m, RuntimeErrorNew(stmt.superclass.name,
                            "Superclass must be a class."))
                ELSE ClassValue(superclass.m, stmt, Some(superclass.val))

\* visit_while_stmt
visit_while_stmt(m, stmt) ==
    LET condition == InterpreterMethod("evaluate", <<m, stmt.condition>>)
        body == InterpreterMethod("execute", <<condition.m, stmt.body>>)
    IN  IF ~Completed(condition) THEN condition
        ELSE IF ~is_truthy(condition.val) THEN Ok(condition.m, NullObj)
        ELSE IF ~Completed(body) THEN body
        ELSE InterpreterMethod("visit_while_stmt", <<body.m, stmt>>)

\* `for statement in statements { self.execute(statement) }`
execute_stmts(m, statements, i) ==
    IF i > Len(statements) THEN Ok(m, NullObj)
    ELSE LET r == InterpreterMethod("execute", <<m, statements[i]>>)
         IN  IF ~Completed(r) THEN r
             ELSE InterpreterMethod("execute_stmts", <<r.m, statements, i + 1>>)

\* Interpreter::execute_block
execute_block(m, statements, environment) ==
    LET previous == m.environment
        r == InterpreterMethod("execute_stmts", <<[m EXCEPT !.environment = environment],
                           statements, 1>>)
        after == RestoreEnvironment(r, previous)
    IN  [r EXCEPT !.m = Log(after, [ev |-> "execute_block",
                                    previous |-> previous,
                                    environment |-> environment,
                                    after |-> after.environment,
                                    exit |-> r.ctl.kind,
                                    depth |-> m.depth])]

\* The methods of the Interpreter and of the callables call one another
\* through InterpreterMethod: the method of that name applied to the
\* arguments a.
InterpreterMethod(method, a) ==
    CASE method = "evaluate" -> evaluate(a[1], a[2])
      [] method = "evaluate_args" -> evaluate_args(a[1], a[2], a[3], a[4])
      [] method = "execute" ->
            execute(Log(a[1], [ev |-> "execute", type |-> a[2].type,
                               depth |-> a[1].depth]), a[2])
      [] method = "execute_stmts" -> execute_stmts(a[1], a[2], a[3])
      [] method = "execute_block" -> execute_block(a[1], a[2], a[3])
      [] method = "visit_while_stmt" -> visit_while_stmt(a[1], a[2])
      [] method = "LoxFunctionCall" -> LoxFunctionCall(a[1], a[2], a[3])
      [] method = "LoxClassCall" -> LoxClassCall(a[1], a[2], a[3])

\* impl Default for Interpreter, with an empty heap around it
InterpreterDefault ==
    LET clock == FunctionObj(1, Clock)
    IN  [environment |-> 1, globals |-> 1, locals |-> EmptyMap,
         resolved |-> <<>>,
         envs |-> <<[values |-> (ClockName :> Some(clock)),
                     enclosing |-> NoEnv]>>,
         fields |-> <<>>, nptr |-> 1, out |-> <<>>, events |-> <<>>,
         depth |-> 0]

(***************************************************************************)
(* Lox::run  (src/src/lib.rs), on the text of a file                       *)
(***************************************************************************)

\* The programs that are run, each a list of lines of Lox text.
Programs ==
    <<
    \* 1 closure_scope
    \*     var a = "global";
    \*     {
    \*     fun showA() { print a; }
    \*     showA();
    \*     var a = "block";
    \*     showA();
    \*     }
      <<<<"v", "a", "r", " ", "a", " ", "=", " ", "\"", "g", "l", "o", "b",
          "a", "l", "\"", ";">>,
        <<"{">>,
        <<"f", "u", "n", " ", "s", "h", "o", "w", "A", "(", ")", " ", "{",
          " ", "p", "r", "i", "n", "t", " ", "a", ";", " ", "}">>,
        <<"s", "h", "o", "w", "A", "(", ")", ";">>,
        <<"v", "a", "r", " ", "a", " ", "=", " ", "\"", "b", "l", "o", "c",
          "k", "\"", ";">>,
        <<"s", "h", "o", "w", "A", "(", ")", ";">>,
        <<"}">>>>,
    \* 2 shadow
    \*     var a = "g";
    \*     { var a = "b"; print a;
    \*     { print a; } }
      <<<<"v", "a", "r", " ", "a", " ", "=", " ", "\"", "g", "\"", ";">>,
        <<"{", " ", "v", "a", "r", " ", "a", " ", "=", " ", "\"", "b", "\"",
          ";", " ", "p", "r", "i", "n", "t", " ", "a", ";">>,
        <<"{", " ", "p", "r", "i", "n", "t", " ", "a", ";", " ", "}", " ",
          "}">>>>,
    \* 3 for_loop
    \*     for (var i = 0; i < 2; i = i + 1)
    \*     print i;
      <<<<"f", "o", "r", " ", "(", "v", "a", "r", " ", "i", " ", "=", " ",
          "0", ";", " ", "i", " ", "<", " ", "2", ";", " ", "i", " ", "=",
          " ", "i", " ", "+", " ", "1", ")">>,
        <<"p", "r", "i", "n", "t", " ", "i", ";">>>>,
    \* 4 counter
    \*     var n = 100;
    \*     { var n = 0;
    \*     fun inc() { n = n + 1; }
    \*     fun get() { return n; }
    \*     inc(); print get();
    \*     { { print n; } } }
      <<<<"v", "a", "r", " ", "n", " ", "=", " ", "1", "0", "0", ";">>,
        <<"{", " ", "v", "a", "r", " ", "n", " ", "=", " ", "0", ";">>,
        <<"f", "u", "n", " ", "i", "n", "c", "(", ")", " ", "{", " ", "n",
          " ", "=", " ", "n", " ", "+", " ", "1", ";", " ", "}">>,
        <<"f", "u", "n", " ", "g", "e", "t", "(", ")", " ", "{", " ", "r",
          "e", "t", "u", "r", "n", " ", "n", ";", " ", "}">>,
        <<"i", "n", "c", "(", ")", ";", " ", "p", "r", "i", "n", "t", " ",
          "g", "e", "t", "(", ")", ";">>,
        <<"{", " ", "{", " ", "p", "r", "i", "n", "t", " ", "n", ";", " ",
          "}", " ", "}", " ", "}">>>>,
    \* 5 init_return
    \*     class A { init(x) { this.x = x; if (x > 1) return; this.y = 2; } }
    \*     var a = A(1);
    \*     var b = A(2);
    \*     print a.y;
    \*     print b.init(1) == b;
    \*     print b.y;
      <<<<"c", "l", "a", "s", "s", " ", "A", " ", "{", " ", "i", "n", "i",
          "t", "(", "x", ")", " ", "{", " ", "t", "h", "i", "s", ".", "x",
          " ", "=", " ", "x", ";", " ", "i", "f", " ", "(", "x", " ", ">",
          " ", "1", ")", " ", "r", "e", "t", "u", "r", "n", ";", " ", "t",
          "h", "i", "s", ".", "y", " ", "=", " ", "2", ";", " ", "}", " ",
          "}">>,
        <<"v", "a", "r", " ", "a", " ", "=", " ", "A", "(", "1", ")", ";">>,
        <<"v", "a", "r", " ", "b", " ", "=", " ", "A", "(", "2", ")", ";">>,
        <<"p", "r", "i", "n", "t", " ", "a", ".", "y", ";">>,
        <<"p", "r", "i", "n", "t", " ", "b", ".", "i", "n", "i", "t", "(",
          "1", ")", " ", "=", "=", " ", "b", ";">>,
        <<"p", "r", "i", "n", "t", " ", "b", ".", "y", ";">>>>,
    \* 6 init_type_error
    \*     class C { init() { this.y = -"s"; this.z = 1; } }
    \*     var c = C();
    \*     print c;
      <<<<"c", "l", "a", "s", "s", " ", "C", " ", "{", " ", "i", "n", "i",
          "t", "(", ")", " ", "{", " ", "t", "h", "i", "s", ".", "y", " ",
          "=", " ", "-", "\"", "s", "\"", ";", " ", "t", "h", "i", "s", ".",
          "z", " ", "=", " ", "1", ";", " ", "}", " ", "}">>,
        <<"v", "a", "r", " ", "c", " ", "=", " ", "C", "(", ")", ";">>,
        <<"p", "r", "i", "n", "t", " ", "c", ";">>>>,
    \* 7 init_undefined
    \*     class D { init() { nope; } }
    \*     print D();
      <<<<"c", "l", "a", "s", "s", " ", "D", " ", "{", " ", "i", "n", "i",
          "t", "(", ")", " ", "{", " ", "n", "o", "p", "e", ";", " ", "}",
          " ", "}">>,
        <<"p", "r", "i", "n", "t", " ", "D", "(", ")", ";">>>>,
    \* 8 no_init
    \*     class E { }
    \*     print E();
    \*     print E;
      <<<<"c", "l", "a", "s", "s", " ", "E", " ", "{", " ", "}">>,
        <<"p", "r", "i", "n", "t", " ", "E", "(", ")", ";">>,
        <<"p", "r", "i", "n", "t", " ", "E", ";">>>>,
    \* 9 top_type_error
    \*     print 1;
    \*     print -"s";
    \*     print 2;
      <<<<"p", "r", "i", "n", "t", " ", "1", ";">>,
        <<"p", "r", "i", "n", "t", " ", "-", "\"", "s", "\"", ";">>,
        <<"p", "r", "i", "n", "t", " ", "2", ";">>>>,
    \* 10 top_undefined
    \*     print 1;
    \*     print nope;
    \*     print 2;
      <<<<"p", "r", "i", "n", "t", " ", "1", ";">>,
        <<"p", "r", "i", "n", "t", " ", "n", "o", "p", "e", ";">>,
        <<"p", "r", "i", "n", "t", " ", "2", ";">>>>,
    \* 11 fun_undefined
    \*     fun f() { return nope; }
    \*     f();
      <<<<"f", "u", "n", " ", "f", "(", ")", " ", "{", " ", "r", "e", "t",
          "u", "r", "n", " ", "n", "o", "p", "e", ";", " ", "}">>,
        <<"f", "(", ")", ";">>>>,
    \* 12 fun_assign_undefined
    \*     fun g() { nope = 1; }
    \*     g();
      <<<<"f", "u", "n", " ", "g", "(", ")", " ", "{", " ", "n", "o", "p",
          "e", " ", "=", " ", "1", ";", " ", "}">>,
        <<"g", "(", ")", ";">>>>,
    \* 13 fun_type_error
    \*     fun f() { return 1 + "a"; }
    \*     print f();
      <<<<"f", "u", "n", " ", "f", "(", ")", " ", "{", " ", "r", "e", "t",
          "u", "r", "n", " ", "1", " ", "+", " ", "\"", "a", "\"", ";", " ",
          "}">>,
        <<"p", "r", "i", "n", "t", " ", "f", "(", ")", ";">>>>,
    \* 14 arity
    \*     fun f(a) { }
    \*     f();
      <<<<"f", "u", "n", " ", "f", "(", "a", ")", " ", "{", " ", "}">>,
        <<"f", "(", ")", ";">>>>,
    \* 15 not_callable
    \*     var s = "s";
    \*     s();
      <<<<"v", "a", "r", " ", "s", " ", "=", " ", "\"", "s", "\"", ";">>,
        <<"s", "(", ")", ";">>>>,
    \* 16 undefined_property
    \*     class A { }
    \*     print A().x;
      <<<<"c", "l", "a", "s", "s", " ", "A", " ", "{", " ", "}">>,
        <<"p", "r", "i", "n", "t", " ", "A", "(", ")", ".", "x", ";">>>>,
    \* 17 unexpected_char
    \*     print 1;
    \*     @
    \*     print 2;
      <<<<"p", "r", "i", "n", "t", " ", "1", ";">>,
        <<"@">>,
        <<"p", "r", "i", "n", "t", " ", "2", ";">>>>,
    \* 18 unterminated_string
    \*     print 1;
    \*     "abc
      <<<<"p", "r", "i", "n", "t", " ", "1", ";">>,
        <<"\"", "a", "b", "c">>>>,
    \* 19 parse_error
    \*     print 1;
    \*     var = 2;
      <<<<"p", "r", "i", "n", "t", " ", "1", ";">>,
        <<"v", "a", "r", " ", "=", " ", "2", ";">>>>,
    \* 20 resolve_error
    \*     print 1;
    \*     return 1;
      <<<<"p", "r", "i", "n", "t", " ", "1", ";">>,
        <<"r", "e", "t", "u", "r", "n", " ", "1", ";">>>>,
    \* 21 super_dispatch
    \*     class A { m() { print "A"; } }
    \*     class B < A { m() { print "B"; } t() { super.m(); } }
    \*     class C < B { m() { print "C"; } }
    \*     C().t();
      <<<<"c", "l", "a", "s", "s", " ", "A", " ", "{", " ", "m", "(", ")",
          " ", "{", " ", "p", "r", "i", "n", "t", " ", "\"", "A", "\"", ";",
          " ", "}", " ", "}">>,
        <<"c", "l", "a", "s", "s", " ", "B", " ", "<", " ", "A", " ", "{",
          " ", "m", "(", ")", " ", "{", " ", "p", "r", "i", "n", "t", " ",
          "\"", "B", "\"", ";", " ", "}", " ", "t", "(", ")", " ", "{", " ",
          "s", "u", "p", "e", "r", ".", "m", "(", ")", ";", " ", "}", " ",
          "}">>,
        <<"c", "l", "a", "s", "s", " ", "C", " ", "<", " ", "B", " ", "{",
          " ", "m", "(", ")", " ", "{", " ", "p", "r", "i", "n", "t", " ",
          "\"", "C", "\"", ";", " ", "}", " ", "}">>,
        <<"C", "(", ")", ".", "t", "(", ")", ";">>>>,
    \* 22 super_missing
    \*     class A { }
    \*     class B < A { t() { super.m(); } }
    \*     B().t();
      <<<<"c", "l", "a", "s", "s", " ", "A", " ", "{", " ", "}">>,
        <<"c", "l", "a", "s", "s", " ", "B", " ", "<", " ", "A", " ", "{",
          " ", "t", "(", ")", " ", "{", " ", "s", "u", "p", "e", "r", ".",
          "m", "(", ")", ";", " ", "}", " ", "}">>,
        <<"B", "(", ")", ".", "t", "(", ")", ";">>>>,
    \* 23 super_twice
    \*     class A { m() { print "A"; } }
    \*     class B < A { m() { super.m(); }
    \*     n() { { super.m(); } } }
    \*     B().m();
      <<<<"c", "l", "a", "s", "s", " ", "A", " ", "{", " ", "m", "(", ")",
          " ", "{", " ", "p", "r", "i", "n", "t", " ", "\"", "A", "\"", ";",
          " ", "}", " ", "}">>,
        <<"c", "l", "a", "s", "s", " ", "B", " ", "<", " ", "A", " ", "{",
          " ", "m", "(", ")", " ", "{", " ", "s", "u", "p", "e", "r", ".",
          "m", "(", ")", ";", " ", "}">>,
        <<"n", "(", ")", " ", "{", " ", "{", " ", "s", "u", "p", "e", "r",
          ".", "m", "(", ")", ";", " ", "}", " ", "}", " ", "}">>,
        <<"B", "(", ")", ".", "m", "(", ")", ";">>>>,
    \* 24 block_return
    \*     fun f(x) { { if (x) { return 1; } } return 2; }
    \*     print f(true);
    \*     print f(false);
      <<<<"f", "u", "n", " ", "f", "(", "x", ")", " ", "{", " ", "{", " ",
          "i", "f", " ", "(", "x", ")", " ", "{", " ", "r", "e", "t", "u",
          "r", "n", " ", "1", ";", " ", "}", " ", "}", " ", "r", "e", "t",
          "u", "r", "n", " ", "2", ";", " ", "}">>,
        <<"p", "r", "i", "n", "t", " ", "f", "(", "t", "r", "u", "e", ")",
          ";">>,
        <<"p", "r", "i", "n", "t", " ", "f", "(", "f", "a", "l", "s", "e",
          ")", ";">>>>,
    \* 25 hidden_var
    \*     var a=1; { fun showA(){print a;} showA(); var a=2; showA(); }
      <<<<"v", "a", "r", " ", "a", "=", "1", ";", " ", "{", " ", "f", "u",
          "n", " ", "s", "h", "o", "w", "A", "(", ")", "{", "p", "r", "i",
          "n", "t", " ", "a", ";", "}", " ", "s", "h", "o", "w", "A", "(",
          ")", ";", " ", "v", "a", "r", " ", "a", "=", "2", ";", " ", "s",
          "h", "o", "w", "A", "(", ")", ";", " ", "}">>>>,
    \* 26 repl_session
    \*     var a = 1;
    \*     a + 1
    \*     fun f() { return a; }
    \*     f()
    \*     nope
    \*     a
      <<<<"v", "a", "r", " ", "a", " ", "=", " ", "1", ";">>,
        <<"a", " ", "+", " ", "1">>,
        <<"f", "u", "n", " ", "f", "(", ")", " ", "{", " ", "r", "e", "t",
          "u", "r", "n", " ", "a", ";", " ", "}">>,
        <<"f", "(", ")">>,
        <<"n", "o", "p", "e">>,
        <<"a">>>>,
    \* 27 equality
    \*     class A { }
    \*     var a = A(); var b = A();
    \*     print a == b; print a == a; print a != b;
    \*     var x = A;
    \*     class A { m() { } }
    \*     print x == A; print x == x;
    \*     fun f() { } var g = f;
    \*     print f == g; print f == clock; print 1 == "1";
    \*     print nil == false; print "s" != "s"; print 2 == 2; print a == A;
      <<<<"c", "l", "a", "s", "s", " ", "A", " ", "{", " ", "}">>,
        <<"v", "a", "r", " ", "a", " ", "=", " ", "A", "(", ")", ";", " ",
          "v", "a", "r", " ", "b", " ", "=", " ", "A", "(", ")", ";">>,
        <<"p", "r", "i", "n", "t", " ", "a", " ", "=", "=", " ", "b", ";",
          " ", "p", "r", "i", "n", "t", " ", "a", " ", "=", "=", " ", "a",
          ";", " ", "p", "r", "i", "n", "t", " ", "a", " ", "!", "=", " ",
          "b", ";">>,
        <<"v", "a", "r", " ", "x", " ", "=", " ", "A", ";">>,
        <<"c", "l", "a", "s", "s", " ", "A", " ", "{", " ", "m", "(", ")",
          " ", "{", " ", "}", " ", "}">>,
        <<"p", "r", "i", "n", "t", " ", "x", " ", "=", "=", " ", "A", ";",
          " ", "p", "r", "i", "n", "t", " ", "x", " ", "=", "=", " ", "x",
          ";">>,
        <<"f", "u", "n", " ", "f", "(", ")", " ", "{", " ", "}", " ", "v",
          "a", "r", " ", "g", " ", "=", " ", "f", ";">>,
        <<"p", "r", "i", "n", "t", " ", "f", " ", "=", "=", " ", "g", ";",
          " ", "p", "r", "i", "n", "t", " ", "f", " ", "=", "=", " ", "c",
          "l", "o", "c", "k", ";", " ", "p", "r", "i", "n", "t", " ", "1",
          " ", "=", "=", " ", "\"", "1", "\"", ";">>,
        <<"p", "r", "i", "n", "t", " ", "n", "i", "l", " ", "=", "=", " ",
          "f", "a", "l", "s", "e", ";", " ", "p", "r", "i", "n", "t", " ",
          "\"", "s", "\"", " ", "!", "=", " ", "\"", "s", "\"", ";", " ",
          "p", "r", "i", "n", "t", " ", "2", " ", "=", "=", " ", "2", ";",
          " ", "p", "r", "i", "n", "t", " ", "a", " ", "=", "=", " ", "A",
          ";">>>>,
    \* 28 arity_cases
    \*     fun f(a, b) { print a; print b; a = b; }
    \*     f(1, 2);
    \*     class P { init(x) { this.x = x; } }
    \*     class Q < P { }
    \*     print Q(3).x;
    \*     class E { }
    \*     print E();
    \*     fun g() { f(1, 2, 3); }
    \*     clock();
    \*     g();
      <<<<"f", "u", "n", " ", "f", "(", "a", ",", " ", "b", ")", " ", "{",
          " ", "p", "r", "i", "n", "t", " ", "a", ";", " ", "p", "r", "i",
          "n", "t", " ", "b", ";", " ", "a", " ", "=", " ", "b", ";", " ",
          "}">>,
        <<"f", "(", "1", ",", " ", "2", ")", ";">>,
        <<"c", "l", "a", "s", "s", " ", "P", " ", "{", " ", "i", "n", "i",
          "t", "(", "x", ")", " ", "{", " ", "t", "h", "i", "s", ".", "x",
          " ", "=", " ", "x", ";", " ", "}", " ", "}">>,
        <<"c", "l", "a", "s", "s", " ", "Q", " ", "<", " ", "P", " ", "{",
          " ", "}">>,
        <<"p", "r", "i", "n", "t", " ", "Q", "(", "3", ")", ".", "x", ";">>,
        <<"c", "l", "a", "s", "s", " ", "E", " ", "{", " ", "}">>,
        <<"p", "r", "i", "n", "t", " ", "E", "(", ")", ";">>,
        <<"f", "u", "n", " ", "g", "(", ")", " ", "{", " ", "f", "(", "1",
          ",", " ", "2", ",", " ", "3", ")", ";", " ", "}">>,
        <<"c", "l", "o", "c", "k", "(", ")", ";">>,
        <<"g", "(", ")", ";">>>>,
    \* 29 arity_class
    \*     class P { init(x) { this.x = x; } }
    \*     class Q < P { }
    \*     Q();
      <<<<"c", "l", "a", "s", "s", " ", "P", " ", "{", " ", "i", "n", "i",
          "t", "(", "x", ")", " ", "{", " ", "t", "h", "i", "s", ".", "x",
          " ", "=", " ", "x", ";", " ", "}", " ", "}">>,
        <<"c", "l", "a", "s", "s", " ", "Q", " ", "<", " ", "P", " ", "{",
          " ", "}">>,
        <<"Q", "(", ")", ";">>>>,
    \* 30 sync_cases
    \*     print 1;
    \*     var = 2; print 3;
    \*     print 4 var x = 5;
    \*     { print ; print 6; }
    \*     print 7;
    \*     a b class C { }
    \*     1 +
      <<<<"p", "r", "i", "n", "t", " ", "1", ";">>,
        <<"v", "a", "r", " ", "=", " ", "2", ";", " ", "p", "r", "i", "n",
          "t", " ", "3", ";">>,
        <<"p", "r", "i", "n", "t", " ", "4", " ", "v", "a", "r", " ", "x",
          " ", "=", " ", "5", ";">>,
        <<"{", " ", "p", "r", "i", "n", "t", " ", ";", " ", "p", "r", "i",
          "n", "t", " ", "6", ";", " ", "}">>,
        <<"p", "r", "i", "n", "t", " ", "7", ";">>,
        <<"a", " ", "b", " ", "c", "l", "a", "s", "s", " ", "C", " ", "{",
          " ", "}">>,
        <<"1", " ", "+">>>>,
    \* 31 many_arguments
    \*     f(1, 1, 1, 1, 1, 1, 1, 1, 1, 1, 1, 1, 1, 1, 1, 1, 1, 1, 1, 1, 1, 1, 1, 1, 1, 1, 1, 1, 1, 1, 1, 1, 1, 1, 1, 1, 1, 1, 1, 1, 1, 1, 1, 1, 1, 1, 1, 1, 1, 1, 1, 1, 1, 1, 1, 1, 1, 1, 1, 1, 1, 1, 1, 1, 1, 1, 1, 1, 1, 1, 1, 1, 1, 1, 1, 1, 1, 1, 1, 1, 1, 1, 1, 1, 1, 1, 1, 1, 1, 1, 1, 1, 1, 1, 1, 1, 1, 1, 1, 1, 1, 1, 1, 1, 1, 1, 1, 1, 1, 1, 1, 1, 1, 1, 1, 1, 1, 1, 1, 1, 1, 1, 1, 1, 1, 1, 1, 1, 1, 1, 1, 1, 1, 1, 1, 1, 1, 1, 1, 1, 1, 1, 1, 1, 1, 1, 1, 1, 1, 1, 1, 1, 1, 1, 1, 1, 1, 1, 1, 1, 1, 1, 1, 1, 1, 1, 1, 1, 1, 1, 1, 1, 1, 1, 1, 1, 1, 1, 1, 1, 1, 1, 1, 1, 1, 1, 1, 1, 1, 1, 1, 1, 1, 1, 1, 1, 1, 1, 1, 1, 1, 1, 1, 1, 1, 1, 1, 1, 1, 1, 1, 1, 1, 1, 1, 1, 1, 1, 1, 1, 1, 1, 1, 1, 1, 1, 1, 1, 1, 1, 1, 1, 1, 1, 1, 1, 1, 1, 1, 1, 1, 1, 1, 1, 1, 1, 1, 1, 1, 1, 1, 1, 1, 1, 1, 1); print 2;
      <<<<"f", "(", "1", ",", " ", "1", ",", " ", "1", ",", " ", "1", ",",
          " ", "1", ",", " ", "1", ",", " ", "1", ",", " ", "1", ",", " ",
          "1", ",", " ", "1", ",", " ", "1", ",", " ", "1", ",", " ", "1",
          ",", " ", "1", ",", " ", "1", ",", " ", "1", ",", " ", "1", ",",
          " ", "1", ",", " ", "1", ",", " ", "1", ",", " ", "1", ",", " ",
          "1", ",", " ", "1", ",", " ", "1", ",", " ", "1", ",", " ", "1",
          ",", " ", "1", ",", " ", "1", ",", " ", "1", ",", " ", "1", ",",
          " ", "1", ",", " ", "1", ",", " ", "1", ",", " ", "1", ",", " ",
          "1", ",", " ", "1", ",", " ", "1", ",", " ", "1", ",", " ", "1",
          ",", " ", "1", ",", " ", "1", ",", " ", "1", ",", " ", "1", ",",
          " ", "1", ",", " ", "1", ",", " ", "1", ",", " ", "1", ",", " ",
          "1", ",", " ", "1", ",", " ", "1", ",", " ", "1", ",", " ", "1",
          ",", " ", "1", ",", " ", "1", ",", " ", "1", ",", " ", "1", ",",
          " ", "1", ",", " ", "1", ",", " ", "1", ",", " ", "1", ",", " ",
          "1", ",", " ", "1", ",", " ", "1", ",", " ", "1", ",", " ", "1",
          ",", " ", "1", ",", " ", "1", ",", " ", "1", ",", " ", "1", ",",
          " ", "1", ",", " ", "1", ",", " ", "1", ",", " ", "1", ",", " ",
          "1", ",", " ", "1", ",", " ", "1", ",", " ", "1", ",", " ", "1",
          ",", " ", "1", ",", " ", "1", ",", " ", "1", ",", " ", "1", ",",
          " ", "1", ",", " ", "1", ",", " ", "1", ",", " ", "1", ",", " ",
          "1", ",", " ", "1", ",", " ", "1", ",", " ", "1", ",", " ", "1",
          ",", " ", "1", ",", " ", "1", ",", " ", "1", ",", " ", "1", ",",
          " ", "1", ",", " ", "1", ",", " ", "1", ",", " ", "1", ",", " ",
          "1", ",", " ", "1", ",", " ", "1", ",", " ", "1", ",", " ", "1",
          ",", " ", "1", ",", " ", "1", ",", " ", "1", ",", " ", "1", ",",
          " ", "1", ",", " ", "1", ",", " ", "1", ",", " ", "1", ",", " ",
          "1", ",", " ", "1", ",", " ", "1", ",", " ", "1", ",", " ", "1",
          ",", " ", "1", ",", " ", "1", ",", " ", "1", ",", " ", "1", ",",
          " ", "1", ",", " ", "1", ",", " ", "1", ",", " ", "1", ",", " ",
          "1", ",", " ", "1", ",", " ", "1", ",", " ", "1", ",", " ", "1",
          ",", " ", "1", ",", " ", "1", ",", " ", "1", ",", " ", "1", ",",
          " ", "1", ",", " ", "1", ",", " ", "1", ",", " ", "1", ",", " ",
          "1", ",", " ", "1", ",", " ", "1", ",", " ", "1", ",", " ", "1",
          ",", " ", "1", ",", " ", "1", ",", " ", "1", ",", " ", "1", ",",
          " ", "1", ",", " ", "1", ",", " ", "1", ",", " ", "1", ",", " ",
          "1", ",", " ", "1", ",", " ", "1", ",", " ", "1", ",", " ", "1",
          ",", " ", "1", ",", " ", "1", ",", " ", "1", ",", " ", "1", ",",
          " ", "1", ",", " ", "1", ",", " ", "1", ",", " ", "1", ",", " ",
          "1", ",", " ", "1", ",", " ", "1", ",", " ", "1", ",", " ", "1",
          ",", " ", "1", ",", " ", "1", ",", " ", "1", ",", " ", "1", ",",
          " ", "1", ",", " ", "1", ",", " ", "1", ",", " ", "1", ",", " ",
          "1", ",", " ", "1", ",", " ", "1", ",", " ", "1", ",", " ", "1",
          ",", " ", "1", ",", " ", "1", ",", " ", "1", ",", " ", "1", ",",
          " ", "1", ",", " ", "1", ",", " ", "1", ",", " ", "1", ",", " ",
          "1", ",", " ", "1", ",", " ", "1", ",", " ", "1", ",", " ", "1",
          ",", " ", "1", ",", " ", "1", ",", " ", "1", ",", " ", "1", ",",
          " ", "1", ",", " ", "1", ",", " ", "1", ",", " ", "1", ",", " ",
          "1", ",", " ", "1", ",", " ", "1", ",", " ", "1", ",", " ", "1",
          ",", " ", "1", ",", " ", "1", ",", " ", "1", ",", " ", "1", ",",
          " ", "1", ",", " ", "1", ",", " ", "1", ",", " ", "1", ",", " ",
          "1", ",", " ", "1", ",", " ", "1", ",", " ", "1", ",", " ", "1",
          ",", " ", "1", ",", " ", "1", ",", " ", "1", ",", " ", "1", ",",
          " ", "1", ",", " ", "1", ",", " ", "1", ",", " ", "1", ",", " ",
          "1", ",", " ", "1", ",", " ", "1", ",", " ", "1", ",", " ", "1",
          ",", " ", "1", ",", " ", "1", ",", " ", "1", ",", " ", "1", ",",
          " ", "1", ",", " ", "1", ",", " ", "1", ",", " ", "1", ",", " ",
          "1", ",", " ", "1", ",", " ", "1", ",", " ", "1", ",", " ", "1",
          ",", " ", "1", ",", " ", "1", ",", " ", "1", ",", " ", "1", ",",
          " ", "1", ",", " ", "1", ",", " ", "1", ",", " ", "1", ",", " ",
          "1", ")", ";", " ", "p", "r", "i", "n", "t", " ", "2", ";">>>>,
    \* 32 many_parameters
    \*     fun g(a, a, a, a, a, a, a, a, a, a, a, a, a, a, a, a, a, a, a, a, a, a, a, a, a, a, a, a, a, a, a, a, a, a, a, a, a, a, a, a, a, a, a, a, a, a, a, a, a, a, a, a, a, a, a, a, a, a, a, a, a, a, a, a, a, a, a, a, a, a, a, a, a, a, a, a, a, a, a, a, a, a, a, a, a, a, a, a, a, a, a, a, a, a, a, a, a, a, a, a, a, a, a, a, a, a, a, a, a, a, a, a, a, a, a, a, a, a, a, a, a, a, a, a, a, a, a, a, a, a, a, a, a, a, a, a, a, a, a, a, a, a, a, a, a, a, a, a, a, a, a, a, a, a, a, a, a, a, a, a, a, a, a, a, a, a, a, a, a, a, a, a, a, a, a, a, a, a, a, a, a, a, a, a, a, a, a, a, a, a, a, a, a, a, a, a, a, a, a, a, a, a, a, a, a, a, a, a, a, a, a, a, a, a, a, a, a, a, a, a, a, a, a, a, a, a, a, a, a, a, a, a, a, a, a, a, a, a, a, a, a, a, a, a, a, a, a, a, a, a, a, a, a, a, a, a) { } print 2;
      <<<<"f", "u", "n", " ", "g", "(", "a", ",", " ", "a", ",", " ", "a",
          ",", " ", "a", ",", " ", "a", ",", " ", "a", ",", " ", "a", ",",
          " ", "a", ",", " ", "a", ",", " ", "a", ",", " ", "a", ",", " ",
          "a", ",", " ", "a", ",", " ", "a", ",", " ", "a", ",", " ", "a",
          ",", " ", "a", ",", " ", "a", ",", " ", "a", ",", " ", "a", ",",
          " ", "a", ",", " ", "a", ",", " ", "a", ",", " ", "a", ",", " ",
          "a", ",", " ", "a", ",", " ", "a", ",", " ", "a", ",", " ", "a",
          ",", " ", "a", ",", " ", "a", ",", " ", "a", ",", " ", "a", ",",
          " ", "a", ",", " ", "a", ",", " ", "a", ",", " ", "a", ",", " ",
          "a", ",", " ", "a", ",", " ", "a", ",", " ", "a", ",", " ", "a",
          ",", " ", "a", ",", " ", "a", ",", " ", "a", ",", " ", "a", ",",
          " ", "a", ",", " ", "a", ",", " ", "a", ",", " ", "a", ",", " ",
          "a", ",", " ", "a", ",", " ", "a", ",", " ", "a", ",", " ", "a",
          ",", " ", "a", ",", " ", "a", ",", " ", "a", ",", " ", "a", ",",
          " ", "a", ",", " ", "a", ",", " ", "a", ",", " ", "a", ",", " ",
          "a", ",", " ", "a", ",", " ", "a", ",", " ", "a", ",", " ", "a",
          ",", " ", "a", ",", " ", "a", ",", " ", "a", ",", " ", "a", ",",
          " ", "a", ",", " ", "a", ",", " ", "a", ",", " ", "a", ",", " ",
          "a", ",", " ", "a", ",", " ", "a", ",", " ", "a", ",", " ", "a",
          ",", " ", "a", ",", " ", "a", ",", " ", "a", ",", " ", "a", ",",
          " ", "a", ",", " ", "a", ",", " ", "a", ",", " ", "a", ",", " ",
          "a", ",", " ", "a", ",", " ", "a", ",", " ", "a", ",", " ", "a",
          ",", " ", "a", ",", " ", "a", ",", " ", "a", ",", " ", "a", ",",
          " ", "a", ",", " ", "a", ",", " ", "a", ",", " ", "a", ",", " ",
          "a", ",", " ", "a", ",", " ", "a", ",", " ", "a", ",", " ", "a",
          ",", " ", "a", ",", " ", "a", ",", " ", "a", ",", " ", "a", ",",
          " ", "a", ",", " ", "a", ",", " ", "a", ",", " ", "a", ",", " ",
          "a", ",", " ", "a", ",", " ", "a", ",", " ", "a", ",", " ", "a",
          ",", " ", "a", ",", " ", "a", ",", " ", "a", ",", " ", "a", ",",
          " ", "a", ",", " ", "a", ",", " ", "a", ",", " ", "a", ",", " ",
          "a", ",", " ", "a", ",", " ", "a", ",", " ", "a", ",", " ", "a",
          ",", " ", "a", ",", " ", "a", ",", " ", "a", ",", " ", "a", ",",
          " ", "a", ",", " ", "a", ",", " ", "a", ",", " ", "a", ",", " ",
          "a", ",", " ", "a", ",", " ", "a", ",", " ", "a", ",", " ", "a",
          ",", " ", "a", ",", " ", "a", ",", " ", "a", ",", " ", "a", ",",
          " ", "a", ",", " ", "a", ",", " ", "a", ",", " ", "a", ",", " ",
          "a", ",", " ", "a", ",", " ", "a", ",", " ", "a", ",", " ", "a",
          ",", " ", "a", ",", " ", "a", ",", " ", "a", ",", " ", "a", ",",
          " ", "a", ",", " ", "a", ",", " ", "a", ",", " ", "a", ",", " ",
          "a", ",", " ", "a", ",", " ", "a", ",", " ", "a", ",", " ", "a",
          ",", " ", "a", ",", " ", "a", ",", " ", "a", ",", " ", "a", ",",
          " ", "a", ",", " ", "a", ",", " ", "a", ",", " ", "a", ",", " ",
          "a", ",", " ", "a", ",", " ", "a", ",", " ", "a", ",", " ", "a",
          ",", " ", "a", ",", " ", "a", ",", " ", "a", ",", " ", "a", ",",
          " ", "a", ",", " ", "a", ",", " ", "a", ",", " ", "a", ",", " ",
          "a", ",", " ", "a", ",", " ", "a", ",", " ", "a", ",", " ", "a",
          ",", " ", "a", ",", " ", "a", ",", " ", "a", ",", " ", "a", ",",
          " ", "a", ",", " ", "a", ",", " ", "a", ",", " ", "a", ",", " ",
          "a", ",", " ", "a", ",", " ", "a", ",", " ", "a", ",", " ", "a",
          ",", " ", "a", ",", " ", "a", ",", " ", "a", ",", " ", "a", ",",
          " ", "a", ",", " ", "a", ",", " ", "a", ",", " ", "a", ",", " ",
          "a", ",", " ", "a", ",", " ", "a", ",", " ", "a", ",", " ", "a",
          ",", " ", "a", ",", " ", "a", ",", " ", "a", ",", " ", "a", ",",
          " ", "a", ",", " ", "a", ",", " ", "a", ",", " ", "a", ",", " ",
          "a", ",", " ", "a", ",", " ", "a", ",", " ", "a", ",", " ", "a",
          ",", " ", "a", ",", " ", "a", ",", " ", "a", ",", " ", "a", ",",
          " ", "a", ",", " ", "a", ",", " ", "a", ",", " ", "a", ",", " ",
          "a", ",", " ", "a", ",", " ", "a", ",", " ", "a", ",", " ", "a",
          ",", " ", "a", ",", " ", "a", ",", " ", "a", ",", " ", "a", ",",
          " ", "a", ",", " ", "a", ")", " ", "{", " ", "}", " ", "p", "r",
          "i", "n", "t", " ", "2", ";">>>>,
    \* 33 assign_targets
    \*     var a; a = 1;
    \*     1 = 2; a + 1 = a = 3;
    \*     (a) = 4; f() = 5;
    \*     var o; o.x = 6; o.x.y = 7;
    \*     print 8;
      <<<<"v", "a", "r", " ", "a", ";", " ", "a", " ", "=", " ", "1", ";">>,
        <<"1", " ", "=", " ", "2", ";", " ", "a", " ", "+", " ", "1", " ",
          "=", " ", "a", " ", "=", " ", "3", ";">>,
        <<"(", "a", ")", " ", "=", " ", "4", ";", " ", "f", "(", ")", " ",
          "=", " ", "5", ";">>,
        <<"v", "a", "r", " ", "o", ";", " ", "o", ".", "x", " ", "=", " ",
          "6", ";", " ", "o", ".", "x", ".", "y", " ", "=", " ", "7", ";">>,
        <<"p", "r", "i", "n", "t", " ", "8", ";">>>>,
    \* 34 return_rules
    \*     return 1;
    \*     fun f() { fun g() { return 1; } return 2; } return;
    \*     class A { init() { return; } }
    \*     class B { init() { return 1; } }
    \*     class C { init() { fun h() { return 1; } return 2; } m() { return 3; } }
    \*     fun init() { return 4; }
    \*     class D { m() { if (true) return 5; } init() { while (false) { return; } } }
      <<<<"r", "e", "t", "u", "r", "n", " ", "1", ";">>,
        <<"f", "u", "n", " ", "f", "(", ")", " ", "{", " ", "f", "u", "n",
          " ", "g", "(", ")", " ", "{", " ", "r", "e", "t", "u", "r", "n",
          " ", "1", ";", " ", "}", " ", "r", "e", "t", "u", "r", "n", " ",
          "2", ";", " ", "}", " ", "r", "e", "t", "u", "r", "n", ";">>,
        <<"c", "l", "a", "s", "s", " ", "A", " ", "{", " ", "i", "n", "i",
          "t", "(", ")", " ", "{", " ", "r", "e", "t", "u", "r", "n", ";",
          " ", "}", " ", "}">>,
        <<"c", "l", "a", "s", "s", " ", "B", " ", "{", " ", "i", "n", "i",
          "t", "(", ")", " ", "{", " ", "r", "e", "t", "u", "r", "n", " ",
          "1", ";", " ", "}", " ", "}">>,
        <<"c", "l", "a", "s", "s", " ", "C", " ", "{", " ", "i", "n", "i",
          "t", "(", ")", " ", "{", " ", "f", "u", "n", " ", "h", "(", ")",
          " ", "{", " ", "r", "e", "t", "u", "r", "n", " ", "1", ";", " ",
          "}", " ", "r", "e", "t", "u", "r", "n", " ", "2", ";", " ", "}",
          " ", "m", "(", ")", " ", "{", " ", "r", "e", "t", "u", "r", "n",
          " ", "3", ";", " ", "}", " ", "}">>,
        <<"f", "u", "n", " ", "i", "n", "i", "t", "(", ")", " ", "{", " ",
          "r", "e", "t", "u", "r", "n", " ", "4", ";", " ", "}">>,
        <<"c", "l", "a", "s", "s", " ", "D", " ", "{", " ", "m", "(", ")",
          " ", "{", " ", "i", "f", " ", "(", "t", "r", "u", "e", ")", " ",
          "r", "e", "t", "u", "r", "n", " ", "5", ";", " ", "}", " ", "i",
          "n", "i", "t", "(", ")", " ", "{", " ", "w", "h", "i", "l", "e",
          " ", "(", "f", "a", "l", "s", "e", ")", " ", "{", " ", "r", "e",
          "t", "u", "r", "n", ";", " ", "}", " ", "}", " ", "}">>>>,
    \* 35 class_context
    \*     print this;
    \*     super.m;
    \*     fun f() { return this; }
    \*     class A { m() { return this; } n() { super.m(); } }
    \*     class B < A { m() { class I { k() { super.k(); return this; } } super.m(); } }
    \*     class C { m() { class J < A { k() { super.k(); } } super.m(); } }
    \*     print this; fun g() { super.x; }
      <<<<"p", "r", "i", "n", "t", " ", "t", "h", "i", "s", ";">>,
        <<"s", "u", "p", "e", "r", ".", "m", ";">>,
        <<"f", "u", "n", " ", "f", "(", ")", " ", "{", " ", "r", "e", "t",
          "u", "r", "n", " ", "t", "h", "i", "s", ";", " ", "}">>,
        <<"c", "l", "a", "s", "s", " ", "A", " ", "{", " ", "m", "(", ")",
          " ", "{", " ", "r", "e", "t", "u", "r", "n", " ", "t", "h", "i",
          "s", ";", " ", "}", " ", "n", "(", ")", " ", "{", " ", "s", "u",
          "p", "e", "r", ".", "m", "(", ")", ";", " ", "}", " ", "}">>,
        <<"c", "l", "a", "s", "s", " ", "B", " ", "<", " ", "A", " ", "{",
          " ", "m", "(", ")", " ", "{", " ", "c", "l", "a", "s", "s", " ",
          "I", " ", "{", " ", "k", "(", ")", " ", "{", " ", "s", "u", "p",
          "e", "r", ".", "k", "(", ")", ";", " ", "r", "e", "t", "u", "r",
          "n", " ", "t", "h", "i", "s", ";", " ", "}", " ", "}", " ", "s",
          "u", "p", "e", "r", ".", "m", "(", ")", ";", " ", "}", " ", "}">>,
        <<"c", "l", "a", "s", "s", " ", "C", " ", "{", " ", "m", "(", ")",
          " ", "{", " ", "c", "l", "a", "s", "s", " ", "J", " ", "<", " ",
          "A", " ", "{", " ", "k", "(", ")", " ", "{", " ", "s", "u", "p",
          "e", "r", ".", "k", "(", ")", ";", " ", "}", " ", "}", " ", "s",
          "u", "p", "e", "r", ".", "m", "(", ")", ";", " ", "}", " ", "}">>,
        <<"p", "r", "i", "n", "t", " ", "t", "h", "i", "s", ";", " ", "f",
          "u", "n", " ", "g", "(", ")", " ", "{", " ", "s", "u", "p", "e",
          "r", ".", "x", ";", " ", "}">>>>,
    \* 36 redeclare_global
    \*     var a = 1; var a = 2; print a; fun a() { return 3; } print a();
      <<<<"v", "a", "r", " ", "a", " ", "=", " ", "1", ";", " ", "v", "a",
          "r", " ", "a", " ", "=", " ", "2", ";", " ", "p", "r", "i", "n",
          "t", " ", "a", ";", " ", "f", "u", "n", " ", "a", "(", ")", " ",
          "{", " ", "r", "e", "t", "u", "r", "n", " ", "3", ";", " ", "}",
          " ", "p", "r", "i", "n", "t", " ", "a", "(", ")", ";">>>>,
    \* 37 redeclare
    \*     var a; var a; fun a() { } class a { }
    \*     { var b; var b; }
    \*     fun f(x, x) { var x; fun x() { } }
    \*     { fun g() { } var g; }
    \*     { var d; { var d; } }
    \*     { var c; class c { } }
      <<<<"v", "a", "r", " ", "a", ";", " ", "v", "a", "r", " ", "a", ";",
          " ", "f", "u", "n", " ", "a", "(", ")", " ", "{", " ", "}", " ",
          "c", "l", "a", "s", "s", " ", "a", " ", "{", " ", "}">>,
        <<"{", " ", "v", "a", "r", " ", "b", ";", " ", "v", "a", "r", " ",
          "b", ";", " ", "}">>,
        <<"f", "u", "n", " ", "f", "(", "x", ",", " ", "x", ")", " ", "{",
          " ", "v", "a", "r", " ", "x", ";", " ", "f", "u", "n", " ", "x",
          "(", ")", " ", "{", " ", "}", " ", "}">>,
        <<"{", " ", "f", "u", "n", " ", "g", "(", ")", " ", "{", " ", "}",
          " ", "v", "a", "r", " ", "g", ";", " ", "}">>,
        <<"{", " ", "v", "a", "r", " ", "d", ";", " ", "{", " ", "v", "a",
          "r", " ", "d", ";", " ", "}", " ", "}">>,
        <<"{", " ", "v", "a", "r", " ", "c", ";", " ", "c", "l", "a", "s",
          "s", " ", "c", " ", "{", " ", "}", " ", "}">>>>,
    \* 38 bound_methods
    \*     class A { init() { this.n = 1; } inc() { this.n = this.n + 1; return this; } m() { return "method"; } }
    \*     var o = A(); var p = o; var f = o.inc; var g = o.inc;
    \*     f(); print o.n; g(); print p.n; p.n = 10; f(); print o.n;
    \*     print o.m(); o.m = "field"; print o.m; print p.inc().n;
      <<<<"c", "l", "a", "s", "s", " ", "A", " ", "{", " ", "i", "n", "i",
          "t", "(", ")", " ", "{", " ", "t", "h", "i", "s", ".", "n", " ",
          "=", " ", "1", ";", " ", "}", " ", "i", "n", "c", "(", ")", " ",
          "{", " ", "t", "h", "i", "s", ".", "n", " ", "=", " ", "t", "h",
          "i", "s", ".", "n", " ", "+", " ", "1", ";", " ", "r", "e", "t",
          "u", "r", "n", " ", "t", "h", "i", "s", ";", " ", "}", " ", "m",
          "(", ")", " ", "{", " ", "r", "e", "t", "u", "r", "n", " ", "\"",
          "m", "e", "t", "h", "o", "d", "\"", ";", " ", "}", " ", "}">>,
        <<"v", "a", "r", " ", "o", " ", "=", " ", "A", "(", ")", ";", " ",
          "v", "a", "r", " ", "p", " ", "=", " ", "o", ";", " ", "v", "a",
          "r", " ", "f", " ", "=", " ", "o", ".", "i", "n", "c", ";", " ",
          "v", "a", "r", " ", "g", " ", "=", " ", "o", ".", "i", "n", "c",
          ";">>,
        <<"f", "(", ")", ";", " ", "p", "r", "i", "n", "t", " ", "o", ".",
          "n", ";", " ", "g", "(", ")", ";", " ", "p", "r", "i", "n", "t",
          " ", "p", ".", "n", ";", " ", "p", ".", "n", " ", "=", " ", "1",
          "0", ";", " ", "f", "(", ")", ";", " ", "p", "r", "i", "n", "t",
          " ", "o", ".", "n", ";">>,
        <<"p", "r", "i", "n", "t", " ", "o", ".", "m", "(", ")", ";", " ",
          "o", ".", "m", " ", "=", " ", "\"", "f", "i", "e", "l", "d", "\"",
          ";", " ", "p", "r", "i", "n", "t", " ", "o", ".", "m", ";", " ",
          "p", "r", "i", "n", "t", " ", "p", ".", "i", "n", "c", "(", ")",
          ".", "n", ";">>>>,
    \* 39 multiline_string
    \*     print "a
    \*     b"; print 2;
    \*     "abc
    \*     def
      <<<<"p", "r", "i", "n", "t", " ", "\"", "a">>,
        <<"b", "\"", ";", " ", "p", "r", "i", "n", "t", " ", "2", ";">>,
        <<"\"", "a", "b", "c">>,
        <<"d", "e", "f">>>>,
    \* 40 for_order
    \*     var i = "g"; for (var i = 0; i < 2; i = i + 1) print i; print i;
      <<<<"v", "a", "r", " ", "i", " ", "=", " ", "\"", "g", "\"", ";", " ",
          "f", "o", "r", " ", "(", "v", "a", "r", " ", "i", " ", "=", " ",
          "0", ";", " ", "i", " ", "<", " ", "2", ";", " ", "i", " ", "=",
          " ", "i", " ", "+", " ", "1", ")", " ", "p", "r", "i", "n", "t",
          " ", "i", ";", " ", "p", "r", "i", "n", "t", " ", "i", ";">>>>,
    \* 41 for_clauses
    \*     var k; fun never() { for (;;) print 1; for (var j = 0;;) print j; for (; false;) print 2; }
    \*     for (k = 0; k < 1;) { print k; k = k + 1; } for (; k < 2; k = k + 1) for (var m = 0; m < 1; m = m + 1) print m;
      <<<<"v", "a", "r", " ", "k", ";", " ", "f", "u", "n", " ", "n", "e",
          "v", "e", "r", "(", ")", " ", "{", " ", "f", "o", "r", " ", "(",
          ";", ";", ")", " ", "p", "r", "i", "n", "t", " ", "1", ";", " ",
          "f", "o", "r", " ", "(", "v", "a", "r", " ", "j", " ", "=", " ",
          "0", ";", ";", ")", " ", "p", "r", "i", "n", "t", " ", "j", ";",
          " ", "f", "o", "r", " ", "(", ";", " ", "f", "a", "l", "s", "e",
          ";", ")", " ", "p", "r", "i", "n", "t", " ", "2", ";", " ", "}">>,
        <<"f", "o", "r", " ", "(", "k", " ", "=", " ", "0", ";", " ", "k",
          " ", "<", " ", "1", ";", ")", " ", "{", " ", "p", "r", "i", "n",
          "t", " ", "k", ";", " ", "k", " ", "=", " ", "k", " ", "+", " ",
          "1", ";", " ", "}", " ", "f", "o", "r", " ", "(", ";", " ", "k",
          " ", "<", " ", "2", ";", " ", "k", " ", "=", " ", "k", " ", "+",
          " ", "1", ")", " ", "f", "o", "r", " ", "(", "v", "a", "r", " ",
          "m", " ", "=", " ", "0", ";", " ", "m", " ", "<", " ", "1", ";",
          " ", "m", " ", "=", " ", "m", " ", "+", " ", "1", ")", " ", "p",
          "r", "i", "n", "t", " ", "m", ";">>>>,
    \* 42 return_nesting
    \*     fun inner(x) { while (true) { if (x) return "in"; return; print "never"; } }
    \*     var a = inner(true); print a; var b = inner(false); print b;
    \*     fun outer() { inner(true); return "out"; print "never"; } print outer(); fun none() { } print none();
    \*     class K { init() { return; print "never"; } m() { { return this; } } } print K().m(); print K().init();
      <<<<"f", "u", "n", " ", "i", "n", "n", "e", "r", "(", "x", ")", " ",
          "{", " ", "w", "h", "i", "l", "e", " ", "(", "t", "r", "u", "e",
          ")", " ", "{", " ", "i", "f", " ", "(", "x", ")", " ", "r", "e",
          "t", "u", "r", "n", " ", "\"", "i", "n", "\"", ";", " ", "r", "e",
          "t", "u", "r", "n", ";", " ", "p", "r", "i", "n", "t", " ", "\"",
          "n", "e", "v", "e", "r", "\"", ";", " ", "}", " ", "}">>,
        <<"v", "a", "r", " ", "a", " ", "=", " ", "i", "n", "n", "e", "r",
          "(", "t", "r", "u", "e", ")", ";", " ", "p", "r", "i", "n", "t",
          " ", "a", ";", " ", "v", "a", "r", " ", "b", " ", "=", " ", "i",
          "n", "n", "e", "r", "(", "f", "a", "l", "s", "e", ")", ";", " ",
          "p", "r", "i", "n", "t", " ", "b", ";">>,
        <<"f", "u", "n", " ", "o", "u", "t", "e", "r", "(", ")", " ", "{",
          " ", "i", "n", "n", "e", "r", "(", "t", "r", "u", "e", ")", ";",
          " ", "r", "e", "t", "u", "r", "n", " ", "\"", "o", "u", "t", "\"",
          ";", " ", "p", "r", "i", "n", "t", " ", "\"", "n", "e", "v", "e",
          "r", "\"", ";", " ", "}", " ", "p", "r", "i", "n", "t", " ", "o",
          "u", "t", "e", "r", "(", ")", ";", " ", "f", "u", "n", " ", "n",
          "o", "n", "e", "(", ")", " ", "{", " ", "}", " ", "p", "r", "i",
          "n", "t", " ", "n", "o", "n", "e", "(", ")", ";">>,
        <<"c", "l", "a", "s", "s", " ", "K", " ", "{", " ", "i", "n", "i",
          "t", "(", ")", " ", "{", " ", "r", "e", "t", "u", "r", "n", ";",
          " ", "p", "r", "i", "n", "t", " ", "\"", "n", "e", "v", "e", "r",
          "\"", ";", " ", "}", " ", "m", "(", ")", " ", "{", " ", "{", " ",
          "r", "e", "t", "u", "r", "n", " ", "t", "h", "i", "s", ";", " ",
          "}", " ", "}", " ", "}", " ", "p", "r", "i", "n", "t", " ", "K",
          "(", ")", ".", "m", "(", ")", ";", " ", "p", "r", "i", "n", "t",
          " ", "K", "(", ")", ".", "i", "n", "i", "t", "(", ")", ";">>>>,
    \* 43 assign_frames
    \*     var a = 1; var b = 2;
    \*     { var a = 3; fun set() { b = a; return b; } print set(); }
    \*     print b; b = nil; print b; var c; c = 6; print c;
    \*     nope = 7; print 8;
      <<<<"v", "a", "r", " ", "a", " ", "=", " ", "1", ";", " ", "v", "a",
          "r", " ", "b", " ", "=", " ", "2", ";">>,
        <<"{", " ", "v", "a", "r", " ", "a", " ", "=", " ", "3", ";", " ",
          "f", "u", "n", " ", "s", "e", "t", "(", ")", " ", "{", " ", "b",
          " ", "=", " ", "a", ";", " ", "r", "e", "t", "u", "r", "n", " ",
          "b", ";", " ", "}", " ", "p", "r", "i", "n", "t", " ", "s", "e",
          "t", "(", ")", ";", " ", "}">>,
        <<"p", "r", "i", "n", "t", " ", "b", ";", " ", "b", " ", "=", " ",
          "n", "i", "l", ";", " ", "p", "r", "i", "n", "t", " ", "b", ";",
          " ", "v", "a", "r", " ", "c", ";", " ", "c", " ", "=", " ", "6",
          ";", " ", "p", "r", "i", "n", "t", " ", "c", ";">>,
        <<"n", "o", "p", "e", " ", "=", " ", "7", ";", " ", "p", "r", "i",
          "n", "t", " ", "8", ";">>>>,
    \* 44 repl_stale
    \*     fun f() { var a = 1; { print a; } }
    \*     var a = 2; f();
    \*     print a;
      <<<<"f", "u", "n", " ", "f", "(", ")", " ", "{", " ", "v", "a", "r",
          " ", "a", " ", "=", " ", "1", ";", " ", "{", " ", "p", "r", "i",
          "n", "t", " ", "a", ";", " ", "}", " ", "}">>,
        <<"v", "a", "r", " ", "a", " ", "=", " ", "2", ";", " ", "f", "(",
          ")", ";">>,
        <<"p", "r", "i", "n", "t", " ", "a", ";">>>>,
    \* 45 scope_balance
    \*     { var a; class S < S { m() { return a; } } }
    \*     fun f() { { var a = a; } return; }
    \*     class T { m() { fun g() { super.m; } } }
    \*     return;
      <<<<"{", " ", "v", "a", "r", " ", "a", ";", " ", "c", "l", "a", "s",
          "s", " ", "S", " ", "<", " ", "S", " ", "{", " ", "m", "(", ")",
          " ", "{", " ", "r", "e", "t", "u", "r", "n", " ", "a", ";", " ",
          "}", " ", "}", " ", "}">>,
        <<"f", "u", "n", " ", "f", "(", ")", " ", "{", " ", "{", " ", "v",
          "a", "r", " ", "a", " ", "=", " ", "a", ";", " ", "}", " ", "r",
          "e", "t", "u", "r", "n", ";", " ", "}">>,
        <<"c", "l", "a", "s", "s", " ", "T", " ", "{", " ", "m", "(", ")",
          " ", "{", " ", "f", "u", "n", " ", "g", "(", ")", " ", "{", " ",
          "s", "u", "p", "e", "r", ".", "m", ";", " ", "}", " ", "}", " ",
          "}">>,
        <<"r", "e", "t", "u", "r", "n", ";">>>>,
    \* 46 parse_progress
    \*     ) print 1; ) print 2;
    \*     { ) print 3; }
    \*     { print 4; ) } 5
      <<<<")", " ", "p", "r", "i", "n", "t", " ", "1", ";", " ", ")", " ",
          "p", "r", "i", "n", "t", " ", "2", ";">>,
        <<"{", " ", ")", " ", "p", "r", "i", "n", "t", " ", "3", ";", " ",
          "}">>,
        <<"{", " ", "p", "r", "i", "n", "t", " ", "4", ";", " ", ")", " ",
          "}", " ", "5">>>>,
    \* 47 non_ascii
    \*     var <U+00EA> = "<U+00E9>"; print <U+00EA>; // <U+00E9>;
    \*     @ <U+05D0> print 2;
    \*     <U+00E9>
      <<<<"v", "a", "r", " ", "xC3", "xAA", " ", "=", " ", "\"", "xC3",
          "xA9", "\"", ";", " ", "p", "r", "i", "n", "t", " ", "xC3", "xAA",
          ";", " ", "/", "/", " ", "xC3", "xA9", ";">>,
        <<"@", " ", "xD7", "x90", " ", "p", "r", "i", "n", "t", " ", "2",
          ";">>,
        <<"xC3", "xA9">>>>,
    \* 48 while_loop
    \*     var i = 0;
    \*     while (i < 2) { print i; i = i + 1; }
      <<<<"v", "a", "r", " ", "i", " ", "=", " ", "0", ";">>,
        <<"w", "h", "i", "l", "e", " ", "(", "i", " ", "<", " ", "2", ")",
          " ", "{", " ", "p", "r", "i", "n", "t", " ", "i", ";", " ", "i",
          " ", "=", " ", "i", " ", "+", " ", "1", ";", " ", "}">>>>
    >>

\* a file keeps each line on its own; the same text may stand on one line
Separators == {<<"\n">>, <<" ">>}

RECURSIVE Join(_, _, _)
\* the text of the lines from the i-th on, sep between two lines
Join(lines, sep, i) ==
    IF i > Len(lines) THEN <<>>
    ELSE IF i = Len(lines) THEN lines[i]
    ELSE lines[i] \o sep \o Join(lines, sep, i + 1)

\* char::is_whitespace for the characters of the programs
is_whitespace(c) == c \in {" ", "\n", "\r", "\t"}

RECURSIVE trim_end(_)
\* str::trim_end
trim_end(line) ==
    IF line # <<>> /\ is_whitespace(line[Len(line)])
    THEN trim_end(SubSeq(line, 1, Len(line) - 1))
    ELSE line

\* str::starts_with and str::ends_with
starts_with(text, prefix) ==
    Len(text) >= Len(prefix) /\ SubSeq(text, 1, Len(prefix)) = prefix
ends_with(text, suffix) ==
    /\ Len(text) >= Len(suffix)
    /\ SubSeq(text, Len(text) - Len(suffix) + 1, Len(text)) = suffix

\* the closure repl_it of Lox::run_prompt: "always print in a repl"
repl_it(text) ==
    IF ~starts_with(text, <<"f", "u", "n", " ">>) /\ ~ends_with(text, <<";">>)
    THEN <<"p", "r", "i", "n", "t", " ">> \o text \o <<";">>
    ELSE text

\* how the process was started: Lox::run_file or Lox::run_prompt
Modes == {"file", "prompt"}

VARIABLES
    mode,           \* "file": run_file, "prompt": run_prompt
    input,          \* the lines of stdin not yet read by run_prompt
    code,           \* the text given to Lox::run
    pc,             \* where the process is: "read" in the loop of
                    \* run_prompt, "scan", "parse", "resolve", "interpret"
                    \* in Lox::run, "done"
    scanner,        \* the Scanner
    parser,         \* the Parser
    stmts,          \* the statements parsed so far
    resolver,       \* the Resolver
    index,          \* the next statement of the loop of resolve_stmts and
                    \* of the loop of interpret
    interpreter,    \* the Interpreter at work, with the heap
    uncaught,       \* what the catch in Lox::run caught
    outcome         \* how the process ended: "none" while it runs, "0", "65",
                    \* "70", "panic"

vars == <<mode, input, code, pc, scanner, parser, stmts, resolver, index, interpreter,
          uncaught, outcome>>

Init ==
    /\ mode \in Modes
    /\ \E i \in DOMAIN Programs :
            IF mode = "file"
            THEN /\ \E sep \in Separators : code = Join(Programs[i], sep, 1)
                 /\ input = <<>>
                 /\ pc = "scan"
            ELSE /\ code = <<>>
                 /\ input = Programs[i]
                 /\ pc = "read"
    /\ scanner = ScannerNew(code)
    /\ parser = ParserNew(<<>>)
    /\ stmts = <<>>
    /\ resolver = ResolverNew(EmptyMap)
    /\ index = 1
    /\ interpreter = InterpreterDefault
    /\ uncaught = Normal
    /\ outcome = "none"

\* process::exit(code), and the panic of the main thread
Exit(status) ==
    /\ pc' = "done"
    /\ outcome' = status

\* one turn of the loop of Lox::run_prompt up to the call of run: read_line
\* (nothing is read at the end of stdin), trim_end, `if code.is_empty()
\* { break }`, repl_it, and the start of Lox::run with Scanner::new
ReadLine ==
    /\ pc = "read"
    /\ \E line \in {IF input = <<>> THEN <<>> ELSE trim_end(Head(input) \o <<"\n">>)} :
            IF line = <<>>
            THEN /\ Exit("0")
                 /\ UNCHANGED <<input, code, scanner, parser, stmts, resolver,
                                index>>
            ELSE /\ input' = Tail(input)
                 /\ code' = repl_it(line)
                 /\ scanner' = [ScannerNew(code') EXCEPT !.run = Len(input')]
                 /\ parser' = ParserNew(<<>>)
                 /\ stmts' = <<>>
                 /\ resolver' = ResolverNew(EmptyMap)
                 /\ index' = 1
                 /\ pc' = "scan"
                 /\ UNCHANGED outcome
    /\ UNCHANGED <<mode, interpreter, uncaught>>

\* one turn of the loop of Scanner::scan_tokens
ScanTurn ==
    /\ pc = "scan"
    /\ ~ScanIsAtEnd(scanner)
    /\ scanner' = ScanStep(scanner)
    /\ IF scanner'.panicked THEN Exit("panic") ELSE UNCHANGED <<pc, outcome>>
    /\ UNCHANGED <<mode, input, code, parser, stmts, resolver, index, interpreter,
                   uncaught>>

\* the end of scan_tokens, and `if scanner.had_error { process::exit(65) }`
ScanTokens ==
    /\ pc = "scan"
    /\ ScanIsAtEnd(scanner)
    /\ scanner' = ScanEof(scanner)
    /\ IF scanner.had_error
       THEN Exit("65") /\ UNCHANGED parser
       ELSE /\ pc' = "parse"
            /\ parser' = ParserNew(scanner'.tokens)
            /\ UNCHANGED outcome
    /\ UNCHANGED <<mode, input, code, stmts, resolver, index, interpreter, uncaught>>

\* one turn of the loop of Parser::parse
ParseTurn ==
    /\ pc = "parse"
    /\ ~IsAtEnd(parser)
    /\ \E ps \in {ParseStep(parser, stmts)} :
            parser' = ps.p /\ stmts' = ps.stmts
    /\ UNCHANGED <<mode, input, code, pc, scanner, resolver, index, interpreter, uncaught,
                   outcome>>

\* the end of parse, `if parser.had_error { process::exit(65) }`, and
\* Resolver::new(self.interpreter.clone())
Parse ==
    /\ pc = "parse"
    /\ IsAtEnd(parser)
    /\ IF parser.had_error
       THEN Exit("65") /\ UNCHANGED <<resolver, index>>
       ELSE /\ pc' = "resolve"
            /\ resolver' = [ResolverNew(interpreter.locals)
                                EXCEPT !.resolved = interpreter.resolved]
            /\ index' = 1
            /\ UNCHANGED outcome
    /\ UNCHANGED <<mode, input, code, scanner, parser, stmts, interpreter, uncaught>>

\* one turn of the loop of Resolver::resolve_stmts.  The resolver's
\* interpreter is a clone: `locals` is the Arc of self.interpreter.
ResolveTurn ==
    /\ pc = "resolve"
    /\ index <= Len(stmts)
    /\ resolver' = ResolverMethod("ResolveStmt", <<resolver, stmts[index]>>)
    /\ interpreter' = [interpreter EXCEPT !.locals = resolver'.locals,
                                          !.resolved = resolver'.resolved]
    /\ index' = index + 1
    /\ UNCHANGED <<mode, input, code, pc, scanner, parser, stmts, uncaught, outcome>>

\* the end of resolve_stmts and `if resolver.had_error { process::exit(65) }`
Resolve ==
    /\ pc = "resolve"
    /\ index > Len(stmts)
    /\ IF resolver.had_error
       THEN Exit("65") /\ UNCHANGED index
       ELSE /\ pc' = "interpret"
            /\ index' = 1
            /\ UNCHANGED outcome
    /\ UNCHANGED <<mode, input, code, scanner, parser, stmts, resolver, interpreter,
                   uncaught>>

\* downcast_exception_print_it_and_return!(70, e => &'static str String),
\* and `Err(e) => panic!`: the exit code for what interpret threw
CaughtOutcome(exception) ==
    IF exception.kind = "String" THEN "70" ELSE "panic"

\* one turn of the loop of Interpreter::interpret, inside the catch of
\* Lox::run, and the match on what it caught
InterpretTurn ==
    /\ pc = "interpret"
    /\ index <= Len(stmts)
    /\ \E r \in {InterpreterMethod("execute", <<interpreter, stmts[index]>>)} :
           /\ interpreter' = r.m
           /\ IF Completed(r)
              THEN /\ index' = index + 1
                   /\ UNCHANGED <<pc, uncaught, outcome>>
              ELSE /\ uncaught' = r.ctl
                   /\ Exit(CaughtOutcome(r.ctl))
                   /\ UNCHANGED index
    /\ UNCHANGED <<mode, input, code, scanner, parser, stmts, resolver>>

\* `Ok(interpreter) => self.interpreter = interpreter`; run returns, and
\* run_file and main after it, or run_prompt goes on with `line.clear()`
\* and the next turn of its loop
Interpret ==
    /\ pc = "interpret"
    /\ index > Len(stmts)
    /\ IF mode = "file"
       THEN Exit("0")
       ELSE pc' = "read" /\ UNCHANGED outcome
    /\ UNCHANGED <<mode, input, code, scanner, parser, stmts, resolver,
                   index, interpreter, uncaught>>

Next ==
    \/ ReadLine
    \/ ScanTurn
    \/ ScanTokens
    \/ ParseTurn
    \/ Parse
    \/ ResolveTurn
    \/ Resolve
    \/ InterpretTurn
    \/ Interpret

Spec == Init /\ [][Next]_vars

(***************************************************************************)
(* Properties                                                              *)
(***************************************************************************)

\* what the interpreter has recorded so far
Events == interpreter.events

EventsOf(kinds) == {i \in DOMAIN Events : Events[i].ev \in kinds}

Reads == {"get_at", "get"}

Writes == {"assign_at", "assign"}

\* the exits of a body that are runtime errors
RuntimeErrorKinds == {"RuntimeError", "String"}

\* C6: The side table is keyed by the occurrence: every read or write of a
\* variable, `this` or `super` uses the depth the resolver computed for that
\* very occurrence, whatever it recorded for other occurrences.
C6_KeyedByIdentity ==
    \A i \in EventsOf(Reads \cup Writes) : Events[i].distance = Events[i].truth

\* C1: Lexical scoping: every read or write of a variable reaches the frame
\* of the innermost declaration the resolver saw for that occurrence.
C1_LexicalScoping ==
    \A i \in EventsOf(Reads \cup Writes) : Events[i].reached = Events[i].binding

\* C7: After a resolution without error, every get_at(d, name) and
\* assign_at(d, name, v) reaches an existing frame d links above the current
\* environment, and that frame already binds name.
C7_FrameExists ==
    \A i \in EventsOf({"get_at", "assign_at"}) :
        /\ Events[i].reached # NoEnv
        /\ Events[i].reached = Ancestor(interpreter.envs, Events[i].env,
                                        Events[i].distance)
        /\ Events[i].found

\* the writes that came between the events i and j to the variable name of
\* the frame
WritesBetween(i, j, frame, name) ==
    {k \in EventsOf(Writes) :
        /\ i < k /\ k < j
        /\ Events[k].name = name
        /\ frame \in {Events[k].reached, Events[k].binding}}

\* C4: Capture by reference: an assignment to a variable made inside a call
\* is what every later read of the same variable gives, in whichever function
\* or frame the read stands, until the variable is assigned again.
C4_CaptureByReference ==
    \A i \in EventsOf(Writes) : \A j \in EventsOf(Reads) :
        ( /\ i < j
          /\ Events[i].depth > 0
          /\ Events[i].binding # NoEnv
          /\ Events[j].binding = Events[i].binding
          /\ Events[j].name = Events[i].name
          /\ WritesBetween(i, j, Events[i].binding, Events[i].name) = {} )
        => Events[j].found /\ Events[j].val = Events[i].val

\* what super.m must give at the event e: the method m found from the
\* superclass of the class of the method, bound to the current this
SuperDispatch(e) ==
    LET method == FindMethod(e.superclass[1].class, e.method)
    IN  IF method = None
        THEN /\ e.result.kind = "RuntimeError"
             /\ e.result.message = "Undefined property"
             /\ e.result.token.lexeme = e.method
        ELSE /\ e.result.kind = "normal"
             /\ e.val.kind = "Function"
             /\ e.val.callable.declaration = method[1].declaration
             /\ EnvGetAt(interpreter.envs, e.val.callable.closure, 0, ThisName)
                    = e.object

\* C5: Super dispatch: super.m in a method of B with superclass A gives the
\* m found from A bound to the current this, and the runtime error
\* "Undefined property 'm'." where the chain from A has no m.
C5_SuperDispatch ==
    \A i \in EventsOf({"super"}) :
        /\ Events[i].superclass # None
        /\ Events[i].object # None
        /\ SuperDispatch(Events[i])

\* C2: An initializer whose body raises a runtime error hands the error to
\* its caller; its call yields `this` only after a normal completion or a
\* bare `return;`.
C2_InitializerPropagates ==
    \A i \in EventsOf({"call"}) :
        Events[i].is_initializer =>
            /\ Events[i].body.kind \in RuntimeErrorKinds
                    => Events[i].result = Events[i].body
            /\ Events[i].result.kind = "normal"
                    => Events[i].body.kind \in {"normal", "ReturnException"}

\* C3: A call of a class with an `init`, whose body completes or executes a
\* bare `return;`, gives an instance of the class that no earlier call gave;
\* and what a call of `init` itself gives is the `this` of its closure.
C3_ClassCallGivesInstance ==
    /\ \A i \in EventsOf({"class_call"}) :
            ( /\ Events[i].has_init
              /\ Events[i].body.kind \in {"normal", "ReturnException"} )
            => /\ Events[i].result.kind = "normal"
               /\ Events[i].val.kind = "Instance"
               /\ Events[i].val.class.name = Events[i].class
               /\ Events[i].val.fields > Events[i].instances
    /\ \A i \in EventsOf({"call"}) :
            Events[i].is_initializer =>
                /\ Events[i].body.kind \in {"normal", "ReturnException"}
                        => Events[i].result.kind = "normal"
                /\ Events[i].result.kind = "normal"
                        => Some(Events[i].val) =
                             EnvGetAt(interpreter.envs, Events[i].closure, 0,
                                      ThisName)

\* a class with an `init` was called twice, the body of `init` completed in
\* one call and executed `return;` in the other
C3_Witness ==
    /\ \E i \in EventsOf({"class_call"}) :
            Events[i].has_init /\ Events[i].body.kind = "normal"
    /\ \E i \in EventsOf({"class_call"}) :
            Events[i].has_init /\ Events[i].body.kind = "ReturnException"
    /\ \E i \in EventsOf({"call"}) :
            /\ Events[i].is_initializer
            /\ Events[i].depth = 0
            /\ Events[i].val.kind = "Instance"

Raised ==
    {Events[i].body : i \in {j \in EventsOf({"call"}) :
                                Events[j].body.kind \in RuntimeErrorKinds}}
    \cup (IF uncaught.kind \in RuntimeErrorKinds THEN {uncaught} ELSE {})

\* C9: Every runtime error raised, at any call depth, reaches the top level
\* as it was raised, with its message and its token, and the run ends with
\* outcome 70.
C9_RuntimeErrorReachesTop ==
    pc = "done" => \A e \in Raised : uncaught = e /\ outcome = "70"

\* what the scanner, the parser and the resolver printed
Diagnostics == scanner.errs \o parser.errs \o resolver.errs

\* C10: Exit codes: after any diagnostic of the scanner, the parser or the
\* resolver no statement is executed and the outcome is 65; after a runtime
\* error the outcome is 70; otherwise it is 0.
C10_ExitCodePolicy ==
    /\ Diagnostics # <<>> => pc # "interpret" /\ Events = <<>>
    /\ pc = "done" =>
            outcome = IF Diagnostics # <<>> THEN "65"
                      ELSE IF Raised # {} THEN "70"
                      ELSE "0"

\* what scan_token and string printed: one diagnostic for every unrecognized
\* character and one for every unterminated string of the source
LexicalErrors == scanner.errs

\* C11: After scan_tokens, Scanner.had_error is true if and only if the
\* source contained an unrecognized character or an unterminated string.
C11_HadErrorIffLexicalError ==
    pc # "scan" => (scanner.had_error <=> LexicalErrors # <<>>)

\* C12: In REPL mode a runtime error in one input line does not end the
\* session: run_prompt goes on to read the next line; only a batch run ends
\* on a runtime error.
C12_ReplContinues ==
    uncaught.kind \in RuntimeErrorKinds =>
        IF mode = "prompt" THEN pc # "done" ELSE pc = "done"

\* the same value: the same number, string, boolean or nil, and for a
\* function, a class or an instance the same object (the instance with the
\* same field map, the class of the same declaration)
SameValue(a, b) ==
    /\ a.kind = b.kind
    /\ CASE a.kind = "Function" -> a.ptr = b.ptr
         [] a.kind = "Instance" -> a.fields = b.fields
         [] OTHER -> a = b

\* C13: Value equality is structural on Number, String, Bool and Nil and by
\* identity on Function, Class and Instance: is_equal answers true exactly
\* for the same value, and false without error for values of different
\* kinds.
C13_EqualityByIdentity ==
    \A i \in EventsOf({"is_equal"}) :
        Events[i].equal = SameValue(Events[i].left, Events[i].right)

\* the arity of a callable as the language defines it: the number of
\* parameters of a function, none for a native one; for a class that of the
\* `init` nearest on its chain of superclasses, 0 without one
RECURSIVE DeclaredInit(_)
DeclaredInit(class) ==
    IF InitName \in DOMAIN class.methods THEN <<class.methods[InitName]>>
    ELSE IF class.superclass = <<>> THEN <<>>
    ELSE DeclaredInit(class.superclass[1])

DeclaredArity(callee) ==
    LET ParamsOf(fn) == IF fn.native THEN 0 ELSE Len(fn.declaration.params)
    IN  IF callee.kind = "Function" THEN ParamsOf(callee.callable)
        ELSE IF DeclaredInit(callee.class) = <<>> THEN 0
        ELSE ParamsOf(DeclaredInit(callee.class)[1])

\* C14: Arity is total: a call of a callable of arity N with M arguments,
\* M # N, fails with the runtime error `Expected N arguments but got M.`
\* and leaves the machine as it was (no body entered, no parameter bound);
\* with M = N the callee is entered, and every body entered has each
\* parameter bound to the argument at the same position; the arity of a
\* class is that of its `init`.
C14_ArityTotal ==
    /\ \A i \in EventsOf({"visit_call"}) :
            LET e == Events[i]
                N == DeclaredArity(e.callee)
                M == Len(e.arguemnts)
            IN  /\ e.arity = N
                /\ M # N =>
                        /\ e.result.kind = "RuntimeError"
                        /\ e.result.message = "Expected {} arguments but got {}.\n"
                        /\ e.result.expected = N /\ e.result.got = M
                        /\ e.untouched
                /\ M = N /\ e.untouched =>
                        e.callee.kind = "Function" /\ e.callee.callable.native
    /\ \A i \in EventsOf({"call"}) :
            LET e == Events[i]
            IN  /\ Len(e.arguemnts) = Len(e.params)
                /\ \A k \in DOMAIN e.params :
                        e.bound[e.params[k].lexeme] = <<e.arguemnts[k]>>
                /\ DOMAIN e.bound = {e.params[k].lexeme : k \in DOMAIN e.params}

\* a call with too few arguments was refused, and a class with an inherited
\* `init` was called with the arguments of that init
C14_Witness ==
    /\ \E i \in EventsOf({"visit_call"}) :
            Len(Events[i].arguemnts) # Events[i].arity /\ Events[i].untouched
    /\ \E i \in EventsOf({"visit_call"}) :
            /\ Events[i].callee.kind = "Class"
            /\ ~(InitName \in DOMAIN Events[i].callee.class.methods)
            /\ Events[i].arity > 0
            /\ Events[i].result.kind = "normal"
    /\ \E i \in EventsOf({"call"}) : Len(Events[i].params) >= 2

\* scenario 4 of the end-to-end scenarios, hidden_var
HiddenVar ==
    <<"v", "a", "r", " ", "a", "=", "1", ";", " ", "{", " ", "f", "u", "n",
      " ", "s", "h", "o", "w", "A", "(", ")", "{", "p", "r", "i", "n", "t",
      " ", "a", ";", "}", " ", "s", "h", "o", "w", "A", "(", ")", ";", " ",
      "v", "a", "r", " ", "a", "=", "2", ";", " ", "s", "h", "o", "w", "A",
      "(", ")", ";", " ", "}">>

Resumable(tokens, current) ==
    \/ tokens[current + 1].ttype = "EOF"
    \/ current > 0 /\ tokens[current].ttype = "SEMICOLON"
    \/ tokens[current + 1].ttype \in
            {"CLASS", "FUN", "VAR", "FOR", "IF", "WHILE", "PRINT", "RETURN"}

\* C16: Parser error recovery, for every turn of the loop of parse: the
\* statements parsed before are kept, in order, and had_error, once true,
\* stays true; a declaration that parsed is appended; after a declaration
\* with a syntax error had_error is true and the parser, having skipped the
\* token of the error, resumes at the first place after it that is just
\* after a `;`, just before one of `class fun var for if while print
\* return`, or the end.
C16_ErrorRecovery ==
    [][pc = "parse" /\ pc' = "parse" =>
        LET tokens == parser.tokens
            error == parser'.errs[Len(parser'.errs)].pos
        IN  /\ parser.had_error => parser'.had_error
            /\ Len(stmts') >= Len(stmts)
            /\ SubSeq(stmts', 1, Len(stmts)) = stmts
            /\ Len(stmts') = Len(stmts) =>
                    /\ parser'.had_error
                    /\ Len(parser'.errs) > Len(parser.errs)
                    /\ error > parser.current
                    /\ Resumable(tokens, parser'.current)
                    /\ parser'.current >= error \/ tokens[error].ttype = "EOF"
                    /\ \A c \in error .. parser'.current - 1 :
                            ~Resumable(tokens, c)
            /\ Len(stmts') > Len(stmts) =>
                    /\ Len(stmts') = Len(stmts) + 1
                    /\ parser'.current > parser.current
    ]_vars

\* parse is over: three declarations had a syntax error, one of them at a
\* keyword, and the statements between and after them were parsed
C16_Witness ==
    /\ pc = "done" /\ outcome = "65" /\ parser.had_error
    /\ Len(parser.errs) >= 3
    /\ Len(stmts) >= 4
    /\ \E i \in DOMAIN parser.errs :
            parser.tokens[parser.errs[i].pos].ttype = "VAR"

\* the diagnostics of a list that is too long
TooMany ==
    {"Can't have more than 255 arguments.",
     "Can't have more than 255 parameters."}

\* C17: When a call has more than 255 arguments, or a function more than 255
\* parameters, the parser reports it and goes on with the same list: the
\* Call or Function node with the whole list is still produced, with
\* had_error set.
C17_TooManyContinues ==
    pc = "done" =>
        \A i \in DOMAIN parser.errs :
            parser.errs[i].msg \in TooMany =>
                /\ parser.had_error
                /\ \E k \in DOMAIN stmts :
                        \/ /\ stmts[k].type = "Expression"
                           /\ stmts[k].expression.type = "Call"
                           /\ Len(stmts[k].expression.arguemnts) > MaxArguments
                           /\ stmts[k].expression.paren.pos > parser.errs[i].pos
                        \/ /\ stmts[k].type = "Function"
                           /\ Len(stmts[k].params) > MaxParameters

\* C18: Assignment targets, for the parser set at any token of the
\* program: where an lhs, `=` and an rhs parse, assignment yields an Assign
\* node when the lhs is a Variable and a Set node when it is a Get, with
\* nothing reported; for any other lhs it reports `Invalid assignment
\* target.` at the `=`, sets had_error and still returns; in each case it
\* has consumed exactly the tokens of the lhs, the `=` and the rhs.
C18_AssignmentTargets ==
    pc = "parse" /\ parser.current = 0 =>
        \A k \in 0 .. Len(parser.tokens) - 1 :
            LET p == [parser EXCEPT !.current = k]
                lhs == ParserMethod("Or", <<p>>)
                equals == Peek(lhs.p)
                rhs == ParserMethod("Assignment", <<Advance(lhs.p)>>)
                r == ParserMethod("Assignment", <<p>>)
            IN  lhs.ok /\ Check(lhs.p, "EQUAL") /\ rhs.ok =>
                    /\ r.ok
                    /\ r.p.current = rhs.p.current
                    /\ IF lhs.node.type = "Variable"
                       THEN /\ r.node = [type |-> "Assign",
                                         name |-> lhs.node.name,
                                         value |-> rhs.node]
                            /\ r.p = rhs.p
                       ELSE IF lhs.node.type = "Get"
                       THEN /\ r.node = [type |-> "Set",
                                         object |-> lhs.node.object,
                                         name |-> lhs.node.name,
                                         value |-> rhs.node]
                            /\ r.p = rhs.p
                       ELSE /\ r.p.had_error
                            /\ r.p.errs =
                                 Append(rhs.p.errs,
                                        Diagnostic(equals,
                                            "Invalid assignment target."))

\* parse is over: four targets that are neither a Variable nor a Get were
\* reported, and every statement of the program was parsed
C18_Witness ==
    /\ pc = "done" /\ parser.had_error
    /\ Len(parser.errs) = 4
    /\ \A i \in DOMAIN parser.errs :
            /\ parser.errs[i].msg = "Invalid assignment target."
            /\ parser.errs[i].at = <<"=">>
    /\ Len(stmts) = 10
    /\ \E k \in DOMAIN stmts :
            stmts[k].type = "Expression" /\ stmts[k].expression.type = "Set"
    /\ \E k \in DOMAIN stmts :
            stmts[k].type = "Expression" /\ stmts[k].expression.type = "Assign"

\* the `return` statements of stmt, each with the kind of the function
\* declaration that most closely encloses it (ftype outside stmt)
RECURSIVE Returns(_, _)
Returns(stmt, ftype) ==
    CASE stmt.type = "Return" ->
            {[pos |-> stmt.keyword.pos, value |-> IsSome(stmt.value),
              function |-> ftype]}
      [] stmt.type = "Block" ->
            UNION {Returns(stmt.statements[i], ftype) : i \in DOMAIN stmt.statements}
      [] stmt.type = "Function" ->
            UNION {Returns(stmt.body[i], "Function") : i \in DOMAIN stmt.body}
      [] stmt.type = "Class" ->
            UNION {UNION {Returns(stmt.methods[m].body[i],
                                  IF stmt.methods[m].name.lexeme = <<"i", "n", "i", "t">>
                                  THEN "Initializer" ELSE "Method") :
                          i \in DOMAIN stmt.methods[m].body} :
                   m \in DOMAIN stmt.methods}
      [] stmt.type = "If" ->
            Returns(stmt.then_branch, ftype)
                \cup (IF IsSome(stmt.else_branch)
                      THEN Returns(stmt.else_branch, ftype) ELSE {})
      [] stmt.type = "While" -> Returns(stmt.body, ftype)
      [] OTHER -> {}

\* the `return` statements of the statements the resolver has been through
ResolvedReturns == UNION {Returns(stmts[k], "None") : k \in 1 .. index - 1}

\* the tokens the resolver reported msg at
ReportedAt(msg) ==
    {resolver.errs[i].pos :
        i \in {j \in DOMAIN resolver.errs : resolver.errs[j].msg = msg}}

\* C19: Resolver return rules: between two top-level statements, the
\* resolver has reported `Can't return from top-level code.` at exactly the
\* `return`s no function encloses and `Can't return a value from an
\* initializer.` at exactly the `return`s with a value whose innermost
\* enclosing function is a method named init (so a bare `return;` there and
\* a `return value;` in a function nested in it are accepted), and
\* current_function is back to None.
C19_ReturnRules ==
    pc = "resolve" =>
        /\ ReportedAt("Can't return from top-level code.\n")
                = {r.pos : r \in {x \in ResolvedReturns : x.function = "None"}}
        /\ ReportedAt("Can't return a value from an initializer.")
                = {r.pos : r \in {x \in ResolvedReturns :
                                      x.value /\ x.function = "Initializer"}}
        /\ resolver.current_function = "None"

\* every statement is resolved: two top-level returns and two returns of a
\* value from an initializer were reported; a bare return in an initializer,
\* a return of a value from a function nested in one, and returns from a
\* method and from a function named init were not
C19_Witness ==
    /\ pc = "resolve" /\ index > Len(stmts)
    /\ Cardinality(ResolvedReturns) = 12
    /\ Cardinality(ReportedAt("Can't return from top-level code.\n")) = 2
    /\ Cardinality(ReportedAt("Can't return a value from an initializer.")) = 2
    /\ Len(resolver.errs) = 4
    /\ \E x \in ResolvedReturns : ~x.value /\ x.function = "Initializer"
    /\ \E x \in ResolvedReturns : x.value /\ x.function = "Method"

\* the `this` and `super` expressions of a statement or an expression, each
\* with what the class declaration that most closely encloses it is: None,
\* a Class without superclass or a SubClass (cls outside node)
RECURSIVE Keywords(_, _)
Keywords(node, cls) ==
    CASE node.type \in {"This", "Super"} ->
            {[pos |-> node.keyword.pos, type |-> node.type, class |-> cls]}
      [] node.type \in {"Binary", "Logical"} ->
            Keywords(node.left, cls) \cup Keywords(node.right, cls)
      [] node.type = "Unary" -> Keywords(node.right, cls)
      [] node.type \in {"Grouping", "Expression", "Print"} ->
            Keywords(node.expression, cls)
      [] node.type = "Assign" -> Keywords(node.value, cls)
      [] node.type = "Call" ->
            Keywords(node.callee, cls)
                \cup UNION {Keywords(node.arguemnts[i], cls) :
                                i \in DOMAIN node.arguemnts}
      [] node.type = "Get" -> Keywords(node.object, cls)
      [] node.type = "Set" ->
            Keywords(node.object, cls) \cup Keywords(node.value, cls)
      [] node.type = "Block" ->
            UNION {Keywords(node.statements[i], cls) : i \in DOMAIN node.statements}
      [] node.type = "Var" -> Keywords(node.initializer, cls)
      [] node.type = "Return" -> Keywords(node.value, cls)
      [] node.type = "If" ->
            Keywords(node.condition, cls) \cup Keywords(node.then_branch, cls)
                \cup Keywords(node.else_branch, cls)
      [] node.type = "While" ->
            Keywords(node.condition, cls) \cup Keywords(node.body, cls)
      [] node.type = "Function" ->
            UNION {Keywords(node.body[i], cls) : i \in DOMAIN node.body}
      [] node.type = "Class" ->
            UNION {UNION {Keywords(node.methods[m].body[i],
                                   IF IsSome(node.superclass)
                                   THEN "SubClass" ELSE "Class") :
                          i \in DOMAIN node.methods[m].body} :
                   m \in DOMAIN node.methods}
      [] OTHER -> {}

\* the `this` and `super` expressions of the statements the resolver has
\* been through
ResolvedKeywords == UNION {Keywords(stmts[k], "None") : k \in 1 .. index - 1}

\* where a keyword of the given type stands whose innermost class is cls
KeywordsAt(type, cls) ==
    {x.pos : x \in {y \in ResolvedKeywords : y.type = type /\ y.class = cls}}

RECURSIVE NamesFrom(_, _)
\* the names the statements from the i-th on declare in the scope they stand
\* in: those of the var, function and class declarations among them
NamesFrom(statements, i) ==
    IF i > Len(statements) THEN <<>>
    ELSE (IF statements[i].type \in {"Var", "Function", "Class"}
          THEN <<statements[i].name>> ELSE <<>>)
            \o NamesFrom(statements, i + 1)

\* the non-global scopes of a statement, each as the sequence of the names
\* declared in it: a block's declarations, a function's parameters followed
\* by the declarations of its body
RECURSIVE LocalScopes(_)
LocalScopes(stmt) ==
    CASE stmt.type = "Block" ->
            {NamesFrom(stmt.statements, 1)}
                \cup UNION {LocalScopes(stmt.statements[i]) : i \in DOMAIN stmt.statements}
      [] stmt.type = "Function" ->
            {stmt.params \o NamesFrom(stmt.body, 1)}
                \cup UNION {LocalScopes(stmt.body[i]) : i \in DOMAIN stmt.body}
      [] stmt.type = "Class" ->
            UNION {LocalScopes(stmt.methods[m]) : m \in DOMAIN stmt.methods}
      [] stmt.type = "If" ->
            LocalScopes(stmt.then_branch)
                \cup (IF IsSome(stmt.else_branch)
                      THEN LocalScopes(stmt.else_branch) ELSE {})
      [] stmt.type = "While" -> LocalScopes(stmt.body)
      [] OTHER -> {}

\* the declarations, among the statements the resolver has been through, of
\* a name that an earlier declaration of the same non-global scope introduced
Redeclarations ==
    UNION {{names[i].pos :
                i \in {k \in DOMAIN names :
                          \E j \in 1 .. k - 1 : names[j].lexeme = names[k].lexeme}} :
           names \in UNION {LocalScopes(stmts[k]) : k \in 1 .. index - 1}}

RedeclareGlobal ==
    <<"v", "a", "r", " ", "a", " ", "=", " ", "1", ";", " ", "v", "a", "r",
      " ", "a", " ", "=", " ", "2", ";", " ", "p", "r", "i", "n", "t", " ",
      "a", ";", " ", "f", "u", "n", " ", "a", "(", ")", " ", "{", " ", "r",
      "e", "t", "u", "r", "n", " ", "3", ";", " ", "}", " ", "p", "r", "i",
      "n", "t", " ", "a", "(", ")", ";">>

\* C21: Redeclaration: between two top-level statements the resolver has
\* reported `Already a variable with this name in this scope.` at exactly the
\* var, function, parameter and class names that an earlier declaration of
\* the same non-global scope introduced, and had_error is set if there is
\* one; at global scope nothing is reported and the later definition
\* replaces the earlier value.
C21_Redeclaration ==
    /\ pc = "resolve" =>
        /\ ReportedAt("Already a variable with this name in this scope.")
                = Redeclarations
        /\ Redeclarations # {} => resolver.had_error
    /\ mode = "file" /\ code = RedeclareGlobal /\ pc = "done" =>
        /\ resolver.errs = <<>>
        /\ interpreter.out = <<NumberObj(2), NumberObj(3)>>

\* the writes of the field that the i-th event reads, before it, through any
\* alias of the instance (an alias shares the Arc of the field map)
SetsBefore(i) ==
    {j \in EventsOf({"instance_set"}) :
        /\ j < i
        /\ Events[j].instance.fields = Events[i].instance.fields
        /\ Events[j].name = Events[i].name}

\* the latest of a non-empty set of events
Latest(S) == CHOOSE j \in S : \A k \in S : k <= j

\* C22: Method binding and instance aliasing: a property access on an
\* instance o that finds no field but a method yields a new bound callable
\* whose `this` is o itself; an access to a field that was written before,
\* through any bound callable's `this` or any alias of o, yields the value
\* written last; and a field named like a method is what the access yields.
C22_BoundMethodsShareThis ==
    \A i \in EventsOf({"instance_get"}) :
        LET e == Events[i]
        IN  IF SetsBefore(i) # {}
            THEN /\ e.result = Normal
                 /\ e.val = Events[Latest(SetsBefore(i))].value
            ELSE FindMethod(e.instance.class, e.name) # None =>
                    /\ e.result = Normal
                    /\ e.val.kind = "Function"
                    /\ ~e.val.callable.native
                    /\ interpreter.envs[e.val.callable.closure].values[ThisName]
                            = Some(e.instance)

\* bound_methods has run: fields written by init and by calls of two bound
\* callables of one instance were read back through two aliases, and a field
\* named like a method was read after the method had been called
C22_Witness ==
    /\ pc = "done" /\ outcome = "0" /\ mode = "file"
    /\ interpreter.out = <<NumberObj(2), NumberObj(3), NumberObj(11),
                           StringObj(<<"m", "e", "t", "h", "o", "d">>),
                           StringObj(<<"f", "i", "e", "l", "d">>),
                           NumberObj(12)>>
    /\ \E i \in EventsOf({"instance_get"}) :
            /\ SetsBefore(i) # {}
            /\ FindMethod(Events[i].instance.class, Events[i].name) # None

\* the number of newlines among the first n characters of the source
Newlines(source, n) == Cardinality({i \in 1 .. n : source[i] = "\n"})

\* C23: in every step of scan_tokens the line counter is 1 plus the number
\* of newlines consumed so far, and a token added by the step carries it; a
\* step that reports `Unterminated string.` adds no token and reports the
\* line of the opening quote, however many lines the text spans.
C23_UnterminatedString ==
    [][pc = "scan" =>
        /\ scanner'.line = 1 + Newlines(scanner'.source, scanner'.current)
        /\ Len(scanner'.tokens) > Len(scanner.tokens) =>
                scanner'.tokens[Len(scanner'.tokens)].line = scanner'.line
        /\ /\ Len(scanner'.errs) > Len(scanner.errs)
           /\ scanner'.errs[Len(scanner'.errs)].msg = "Unterminated string."
           => /\ scanner'.tokens = scanner.tokens
              /\ scanner'.source[scanner'.start + 1] = "\""
              /\ scanner'.errs[Len(scanner'.errs)].line
                    = 1 + Newlines(scanner'.source, scanner'.start)]_vars

\* a for loop between the declaration and the printing of a global that has
\* the name of the loop variable
ForOrder ==
    <<"v", "a", "r", " ", "i", " ", "=", " ", "\"", "g", "\"", ";", " ", "f",
      "o", "r", " ", "(", "v", "a", "r", " ", "i", " ", "=", " ", "0", ";",
      " ", "i", " ", "<", " ", "2", ";", " ", "i", " ", "=", " ", "i", " ",
      "+", " ", "1", ")", " ", "p", "r", "i", "n", "t", " ", "i", ";", " ",
      "p", "r", "i", "n", "t", " ", "i", ";">>

\* the parts of the for statement whose `for` is the token before p, each
\* parsed on its own: initializer, condition, increment, body (node None for
\* a part that is missing)
ForParts(p) ==
    LET open == Advance(p)
        initializer ==
            IF Check(open, "SEMICOLON") THEN POk(Advance(open), NoneNode)
            ELSE IF Check(open, "VAR")
            THEN VarDeclaration(Advance(open))
            ELSE ExpressionStatement(open)
        condition ==
            IF Check(initializer.p, "SEMICOLON") THEN POk(initializer.p, NoneNode)
            ELSE ParserMethod("Expression", <<initializer.p>>)
        increment ==
            IF Check(Advance(condition.p), "RIGHT_PAREN")
            THEN POk(Advance(condition.p), NoneNode)
            ELSE ParserMethod("Expression", <<Advance(condition.p)>>)
        body == ParserMethod("Statement", <<Advance(increment.p)>>)
    IN  [ok |-> /\ Check(p, "LEFT_PAREN")
                /\ initializer.ok
                /\ condition.ok /\ Check(condition.p, "SEMICOLON")
                /\ increment.ok /\ Check(increment.p, "RIGHT_PAREN")
                /\ body.ok,
         initializer |-> initializer.node, condition |-> condition.node,
         increment |-> increment.node, body |-> body.node, p |-> body.p]

\* C24: for the parser set at any `for` of the program whose clauses and
\* body parse: the statement parsed is
\* Block[init, While(cond, Block[body, Expression(incr)])], with the literal
\* true for a missing condition, the body unwrapped for a missing increment
\* and the While unwrapped for a missing initializer, and nothing is
\* reported; so for_order prints 0 and 1, the increment running after each
\* body and before the next test, and then the global that the loop
\* variable shadowed.
C24_ForDesugaring ==
    /\ pc = "parse" /\ parser.current = 0 =>
        \A k \in 0 .. Len(parser.tokens) - 1 :
            LET p == [parser EXCEPT !.current = k]
                parts == ForParts(Advance(p))
                loop == [type |-> "While",
                         condition |->
                            IF IsSome(parts.condition) THEN parts.condition
                            ELSE [type |-> "Literal",
                                  value |-> [kind |-> "Bool", bool |-> TRUE]],
                         body |->
                            IF IsSome(parts.increment)
                            THEN [type |-> "Block",
                                  statements |->
                                    <<parts.body,
                                      [type |-> "Expression",
                                       expression |-> parts.increment]>>]
                            ELSE parts.body]
                r == ParserMethod("Statement", <<p>>)
            IN  Check(p, "FOR") /\ parts.ok =>
                    /\ r.ok
                    /\ r.p = parts.p
                    /\ r.node = IF IsSome(parts.initializer)
                                THEN [type |-> "Block",
                                      statements |-> <<parts.initializer, loop>>]
                                ELSE loop
    /\ mode = "file" /\ code = ForOrder /\ pc = "done" =>
        /\ outcome = "0"
        /\ interpreter.out = <<NumberObj(0), NumberObj(1), StringObj(<<"g">>)>>

\* the `return` statements that threw before the i-th event
ReturnsBefore(i) == {j \in EventsOf({"return"}) : j < i}

\* the calls that ended after the j-th event
CallsAfter(j) == {i \in EventsOf({"call"}) : i > j}

\* every `return` that threw is caught by the first call to end after it,
\* the call whose body it stands in; that call ends normally, and between
\* the throw and the end of the call no statement is executed; nothing ends
\* the run as a ReturnException
ReturnEndsInnermostCall ==
    /\ uncaught.kind # "ReturnException"
    /\ \A j \in EventsOf({"return"}) :
            CallsAfter(j) # {} =>
                LET i == CHOOSE c \in CallsAfter(j) : \A k \in CallsAfter(j) : c <= k
                IN  /\ Events[i].body.kind = "ReturnException"
                    /\ Events[i].depth + 1 = Events[j].depth
                    /\ Events[i].result = Normal
                    /\ \A k \in j + 1 .. i - 1 : Events[k].ev # "execute"
    /\ \A i \in EventsOf({"call"}) :
            Events[i].body.kind = "ReturnException" => ReturnsBefore(i) # {}

RECURSIVE Chain(_, _)
\* the frames from env to the globals, nearest first
Chain(envs, env) ==
    IF env = NoEnv THEN <<>> ELSE <<env>> \o Chain(envs, envs[env].enclosing)

\* the names bound in some frame, and one that is bound in none
AssignNames ==
    UNION {DOMAIN interpreter.envs[e].values : e \in DOMAIN interpreter.envs}
        \cup {<<"n", "o", "n", "e">>}

\* a value no program binds
AssignValue == StringObj(<<"a", "s", "s", "i", "g", "n", "e", "d">>)

\* what Environment::assign does to the frames: for the frames of every state
\* of a run, every frame as the receiver and every name, the binding of the
\* nearest frame of the chain that has the name becomes the value and nothing
\* else changes; without such a frame the call fails and nothing changes
AssignFrameEffect ==
    \A env \in DOMAIN interpreter.envs : \A k \in AssignNames :
        LET envs == interpreter.envs
            name == [lexeme |-> k, line |-> 1]
            r == assign(interpreter, env, name, AssignValue)
            chain == Chain(envs, env)
            holders == {i \in DOMAIN chain : k \in DOMAIN envs[chain[i]].values}
        IN  IF holders = {}
            THEN /\ r.ctl.kind = "String"
                 /\ r.ctl.message = "Undefined variable"
                 /\ r.ctl.token.lexeme = k
                 /\ r.m = interpreter
            ELSE LET nearest == chain[CHOOSE i \in holders : \A j \in holders : i <= j]
                 IN  /\ r.ctl = Normal
                     /\ r.m.envs[nearest].values[k] = Some(AssignValue)
                     /\ DOMAIN r.m.envs = DOMAIN envs
                     /\ \A e \in DOMAIN envs :
                            /\ r.m.envs[e].enclosing = envs[e].enclosing
                            /\ DOMAIN r.m.envs[e].values = DOMAIN envs[e].values
                            /\ \A key \in DOMAIN envs[e].values :
                                    e # nearest \/ key # k =>
                                        r.m.envs[e].values[key] = envs[e].values[key]
                     /\ [r.m EXCEPT !.envs = envs] = interpreter

\* C26: Environment.assign(token, v) overwrites the binding in the nearest
\* frame of the chain, starting at the receiver, whose map contains the name,
\* and leaves every other frame and binding unchanged; when no frame up to
\* the globals contains the name it fails with `Undefined variable 'NAME'.`
\* and modifies no frame.  The assignments of a run that reach it, those of
\* names without an entry in the side table, are calls on the globals: they
\* end the run with that message exactly when the globals lack the name.
C26_AssignOverwritesNearest ==
    /\ AssignFrameEffect
    /\ \A i \in EventsOf({"assign"}) :
            /\ Events[i].reached = interpreter.globals
            /\ ~Events[i].found /\ Events[i].depth = 0 =>
                    /\ i = Len(Events)
                    /\ mode = "file" /\ pc = "done" => outcome = "70"

\* assign_frames has run: it has assigned to globals from the top level and
\* from a function whose chain binds another name twice, to a global that
\* was declared without a value, and at last to a name the globals lack
C26_Witness ==
    /\ mode = "file" /\ pc = "done" /\ outcome = "70"
    /\ interpreter.out = <<NumberObj(3), NumberObj(3),
                           [text |-> "Null", kind |-> "Text"], NumberObj(6)>>
    /\ Cardinality({i \in EventsOf({"assign"}) : Events[i].found}) = 3
    /\ \E i \in EventsOf({"assign"}) : Events[i].found /\ Events[i].depth = 1
    /\ ~Events[Len(Events)].found /\ Events[Len(Events)].ev = "assign"
    /\ \E env \in DOMAIN interpreter.envs : \E k \in AssignNames :
            LET chain == Chain(interpreter.envs, env)
            IN  /\ Len(chain) >= 3
                /\ Cardinality({i \in DOMAIN chain :
                        k \in DOMAIN interpreter.envs[chain[i]].values}) >= 2
                /\ k \notin DOMAIN interpreter.envs[env].values

(***************************************************************************)
(* C27  The side table across the inputs of one prompt session             *)
(***************************************************************************)

\* the calls of resolve_local made for the input being run
ResolvedNow ==
    {i \in DOMAIN interpreter.resolved :
            interpreter.resolved[i].run = scanner.run}

\* the call of resolve_local that wrote the entry the side table holds for
\* key: the last one that found a scope for an expression with this key
LastWrite(key) ==
    LET W == {j \in DOMAIN interpreter.resolved :
                    /\ interpreter.resolved[j].key = key
                    /\ interpreter.resolved[j].depth # NoDepth}
    IN  IF W = {} THEN 0 ELSE CHOOSE j \in W : \A k \in W : k <= j

\* the Variable and Assign expressions of the input being run that the
\* resolver found in no scope while the side table holds a depth for them
\* that was written for an earlier input
StaleDepths ==
    {i \in ResolvedNow :
            /\ interpreter.resolved[i].type \in {"Variable", "Assign"}
            /\ interpreter.resolved[i].depth = NoDepth
            /\ LastWrite(interpreter.resolved[i].key) # 0
            /\ interpreter.resolved[LastWrite(interpreter.resolved[i].key)].run
                    # scanner.run}

\* C27: In a prompt session, when an input has been resolved, no Variable or
\* Assign expression of it that the resolver found in no scope has a depth
\* in the side table written while an earlier input was resolved: it is
\* looked up in, or assigned through, the globals.
C27_NoStaleDepth ==
    mode = "prompt" /\ pc \in {"interpret", "read", "done"} =>
        /\ StaleDepths = {}
        /\ \A i \in EventsOf({"get_at", "assign_at"}) :
                Events[i].truth # NoDepth

(***************************************************************************)
(* C28  The scope stack of the resolver is balanced                        *)
(***************************************************************************)

\* the scope stack a statement must leave: the one it found, the name it
\* declares added to the innermost scope when there is one
ScopesLeft(e) ==
    IF e.declares # <<>> /\ e.before.scopes # <<>>
    THEN [e.before.scopes EXCEPT ![Len(e.before.scopes)] =
                MapInsert(@, e.declares[1], TRUE)]
    ELSE e.before.scopes

\* C28: Every statement the resolver has resolved, errors reported or not,
\* left the scope stack with the depth it found and with the scopes it found
\* (the innermost holds the name the statement declares), and left
\* current_function and current_class as it found them; between the
\* statements of the program, and when resolve_stmts returns, the stack is
\* empty and both are None.
C28_ScopesBalanced ==
    /\ \A i \in DOMAIN resolver.trail :
            LET e == resolver.trail[i]
            IN  /\ Len(e.after.scopes) = Len(e.before.scopes)
                /\ e.after.scopes = ScopesLeft(e)
                /\ e.after.current_function = e.before.current_function
                /\ e.after.current_class = e.before.current_class
    /\ resolver.scopes = <<>>
    /\ resolver.current_function = "None"
    /\ resolver.current_class = "None"

\* resolve_stmts has returned with four errors reported; among the
\* statements resolved are a class with a superclass met inside a block, a
\* block inside a function and a function inside a method, each with an
\* error reported inside it
C28_Witness ==
    /\ mode = "file" /\ pc = "resolve" /\ index > Len(stmts)
    /\ resolver.had_error /\ Len(resolver.errs) = 4
    /\ \E i \in DOMAIN resolver.trail :
            LET e == resolver.trail[i]
            IN  /\ e.type = "Class" /\ e.superclass
                /\ Len(e.before.scopes) = 1
                /\ e.after.errors > e.before.errors
                /\ e.after.scopes # e.before.scopes
    /\ \E i \in DOMAIN resolver.trail :
            LET e == resolver.trail[i]
            IN  /\ e.type = "Block" /\ Len(e.before.scopes) = 1
                /\ e.before.current_function = "Function"
                /\ e.after.errors > e.before.errors
    /\ \E i \in DOMAIN resolver.trail :
            LET e == resolver.trail[i]
            IN  /\ e.type = "Function" /\ Len(e.before.scopes) = 2
                /\ e.before.current_function = "Method"
                /\ e.before.current_class = "Class"
                /\ e.after.errors > e.before.errors

(***************************************************************************)
(* C29  Parser::parse terminates and the cursor stays inside the list      *)
(***************************************************************************)

\* the index of the EOF token of the list the parser was given
EofIndex(p) == Len(p.tokens) - 1

\* C29: On the token list of every input (it ends with one EOF token),
\* current never passes the index of the EOF token, previous() is never
\* called while current is 0, every turn of the loop of parse and of the
\* loops of block leaves current further than it found it: the loops end
\* after at most as many turns as there are tokens before the EOF token.
C29_ParseTerminates ==
    /\ [](parser.tokens # <<>> =>
                /\ parser.tokens[Len(parser.tokens)].ttype = "EOF"
                /\ parser.current <= EofIndex(parser)
                /\ ~parser.underflow
                /\ parser.stalls = <<>>)
    /\ [][pc = "parse" /\ pc' = "parse" =>
                /\ parser'.current > parser.current
                /\ parser'.current <= EofIndex(parser)]_vars

\* parse is about to return at the EOF token after five errors: at the first
\* token of the input, right after a `;`, at the first token of a block that
\* kept the statement after it, in a block whose `}` synchronize skipped,
\* and at the end of the input, where the loop of that block stopped
C29_Witness ==
    /\ pc = "parse" /\ IsAtEnd(parser)
    /\ parser.current = EofIndex(parser) /\ parser.current > 20
    /\ parser.had_error /\ Len(parser.errs) = 5
    /\ parser.errs[1].pos = 1
    /\ parser.tokens[parser.errs[2].pos - 1].ttype = "SEMICOLON"
    /\ parser.tokens[parser.errs[3].pos - 1].ttype = "LEFT_BRACE"
    /\ parser.errs[5].at = <<"e", "n", "d">>
    /\ Len(stmts) = 3
    /\ stmts[3].type = "Block" /\ Len(stmts[3].statements) = 1

(***************************************************************************)
(* C30  Scanner::scan_tokens terminates with one final EOF token           *)
(***************************************************************************)

\* the characters that scan_token matches before its last arm
Matched ==
    {"(", ")", "{", "}", ",", ".", "-", "+", ";", "*", "!", "=", "<", ">",
     "/", " ", "\r", "\t", "\n", "\""}

\* the characters for which scan_token prints "Unexpected character."
Unrecognized(c) == c \notin Matched /\ ~is_ldigit(c) /\ ~is_lalpha(c)

\* C30: For every source, scan_tokens returns: no step of it panics, every
\* scan_token step moves current forward by at least one with
\* start <= current <= the length of the source, an unrecognized character
\* is skipped alone and scanning goes on with the next one, and the list
\* returned ends with an EOF token with an empty lexeme, the only EOF token
\* of the list.
C30_ScanTerminates ==
    /\ [](/\ scanner.start <= scanner.current
          /\ scanner.current <= Len(scanner.source)
          /\ ~scanner.panicked
          /\ \A i \in DOMAIN scanner.tokens :
                scanner.tokens[i].ttype = "EOF" =>
                    i = Len(scanner.tokens) /\ scanner.tokens[i].lexeme = <<>>
          /\ pc \in {"parse", "resolve", "interpret"} =>
                /\ scanner.tokens # <<>>
                /\ scanner.tokens[Len(scanner.tokens)].ttype = "EOF"
                /\ parser.tokens = scanner.tokens)
    /\ [][pc = "scan" /\ ~ScanIsAtEnd(scanner) =>
                /\ scanner'.current > scanner.current
                /\ scanner'.start = scanner.current
                /\ Unrecognized(CharAt(scanner)) =>
                        /\ scanner'.current = scanner.current + 1
                        /\ scanner'.tokens = scanner.tokens
                        /\ Len(scanner'.errs) = Len(scanner.errs) + 1
                        /\ pc' = "scan"]_vars

====
